---- MODULE Spec2Model ----
(***************************************************************************)
(* Model of the net-shell remote script pipeline executor:                 *)
(*   src/src/executor/mod.rs  RemoteExecutor (pipeline engine)             *)
(*   src/src/vars/mod.rs      VariableManager (store, substitution,        *)
(*                            extraction)                                  *)
(*   src/src/config/mod.rs    ConfigManager::validate_config               *)
(*   src/src/ssh/mod.rs, src/src/ssh/local.rs   the two transports         *)
(*                                                                         *)
(* Text is a sequence of tokens; the placeholder of key k is the token     *)
(* "{{ k }}".  A HashMap<String,String> is a function from its keys.       *)
(***************************************************************************)
EXTENDS Integers, Sequences, FiniteSets, TLC

VARIABLES
    yaml_content,      \* the YAML document from_yaml_str is given, as it parses
    config,            \* RemoteExecutor.config (immutable once constructed)
    overrides,         \* the caller's variables argument of from_yaml_str
    executor,          \* "none" | "ready" | "rejected": outcome of from_yaml_str
    variable_manager,  \* RemoteExecutor.variable_manager.variables
    pc,                \* where the engine's (sequential) async code stands
    all_frame,         \* locals of execute_all_pipelines_with_realtime_output
    pipe_frame,        \* locals of execute_pipeline_with_realtime_output
    step_frame,        \* locals of execute_step_with_realtime_output
    tasks,             \* the tokio tasks spawned for the servers of the step
    events,            \* OutputEvents handed to the callbacks during this call
    ret,               \* what the last API call returned
    calls,             \* number of API calls made on this executor
    vm,                \* a VariableManager of its own: its variables
    vm_call,           \* the last call made on it, with its arguments
    vm_ret,            \* what that call returned
    transport,         \* a transport run by itself: its locals and position
    readers,           \* per stream: how far it was read, what was accumulated
    callback,          \* the channel to the callback and the events it got
    template_engine    \* a TemplateEngine: its variables and the rendering

vars == <<yaml_content, config, overrides, executor, variable_manager, pc, all_frame,
          pipe_frame, step_frame, tasks, events, ret, calls, vm, vm_call, vm_ret,
          transport, readers, callback, template_engine>>

\* The variables of a transport run by itself.
transport_vars == <<transport, readers, callback>>

-----------------------------------------------------------------------------
(* Bounds *)

\* API calls (execute_all / execute_pipeline) made on one executor.
MaxCalls == 2

-----------------------------------------------------------------------------
(* Option<T>: None is the empty sequence, Some(v) the one-element sequence *)

None == <<>>

Some(v) == <<v>>

is_some(o) == o # <<>>

unwrap(o) == o[1]

-----------------------------------------------------------------------------
(* Variable store: src/src/vars/mod.rs *)

NoVars == <<>>

\* HashMap::insert
set_variable(variables, key, value) ==
    [k \in (DOMAIN variables) \cup {key} |->
        IF k = key THEN value ELSE variables[k]]

\* HashMap::extend / a loop of set_variable over another map: later wins.
extend(variables, more) ==
    [k \in (DOMAIN variables) \cup (DOMAIN more) |->
        IF k \in DOMAIN more THEN more[k] ELSE variables[k]]

\* HashMap::remove
remove_variable(variables, key) ==
    [k \in (DOMAIN variables) \ {key} |-> variables[k]]

\* format!("{{{{ {} }}}}", key)
Placeholder(key) == "{{ " \o key \o " }}"

\* str::replace(&placeholder, value) on a tokenised text
replace_placeholder(text, key, value) ==
    [i \in DOMAIN text |-> IF text[i] = Placeholder(key) THEN value ELSE text[i]]

\* Mutant of replace_in_order: the loop stops after the first key.
replace_in_order_first_key(variables, order, text) ==
    IF order = <<>> THEN text
    ELSE replace_placeholder(text, Head(order), variables[Head(order)])

\* The loop of replace_variables for one iteration order of the HashMap.
RECURSIVE replace_in_order(_, _, _)
replace_in_order(variables, order, text) ==
    IF order = <<>> THEN text
    ELSE replace_in_order(variables, Tail(order),
            replace_placeholder(text, Head(order), variables[Head(order)]))

\* The iteration orders a HashMap with these keys may have.
KeyOrders(keys) ==
    {o \in [1..Cardinality(keys) -> keys] :
        \A i, j \in 1..Cardinality(keys) : i # j => o[i] # o[j]}

\* replace_variables: the outputs it can produce (one per iteration order).
replace_variables(variables, text) ==
    {replace_in_order(variables, o, text) : o \in KeyOrders(DOMAIN variables)}

\* A text as the String it stands for.
RECURSIVE Flatten(_)
Flatten(text) == IF text = <<>> THEN "" ELSE Head(text) \o Flatten(Tail(text))

-----------------------------------------------------------------------------
(* The regex crate on the patterns and texts of this model.  A pattern is    *)
(* its source string; Regex::new fails on a pattern that does not compile.  *)

InvalidPattern == "("

\* Regex::new(pattern).is_ok()
regex_new_ok(pattern) == pattern # InvalidPattern

NoCaptures == [matched |-> FALSE, full |-> "", group1 |-> None]

Matched(full, group1) == [matched |-> TRUE, full |-> full, group1 |-> group1]

\* regex.captures(content): whether the pattern matches, the full match
\* (captures.get(0)) and the first capture group (captures.get(1)).
captures(pattern, content) ==
    CASE pattern = "v=(\\d+)" /\ content \in {"v=42", "v=42\n"}
            -> Matched("v=42", Some("42"))
      [] pattern = "v=(\\d+)" /\ content \in {"v=7", "v=7\n"}
            -> Matched("v=7", Some("7"))
      [] pattern = "v=\\d+" /\ content \in {"v=42", "v=42\n"}
            -> Matched("v=42", None)
      [] pattern = "v=\\d+" /\ content \in {"v=7", "v=7\n"}
            -> Matched("v=7", None)
      [] pattern = "(\\d)" /\ content \in {"v=42", "v=42\n", "42", "4"}
            -> Matched("4", Some("4"))
      [] pattern = "(\\d)" /\ content \in {"v=7", "v=7\n", "7"}
            -> Matched("7", Some("7"))
      [] pattern = "(\\d)" /\ content = "0" -> Matched("0", Some("0"))
      [] pattern = "(\\d)"
         /\ content \in {"1", "-1", "token: abc123=xyz", "token: abc123",
                         "abc123=xyz", "abc123"}
            -> Matched("1", Some("1"))
      [] pattern = "token: (.*)" /\ content = "token: abc123=xyz"
            -> Matched("token: abc123=xyz", Some("abc123=xyz"))
      [] pattern = "token: (.*)" /\ content = "token: abc123"
            -> Matched("token: abc123", Some("abc123"))
      [] pattern = "(.+?)=" /\ content = "token: abc123=xyz"
            -> Matched("token: abc123=", Some("token: abc123"))
      [] pattern = "(.+?)=" /\ content = "abc123=xyz"
            -> Matched("abc123=", Some("abc123"))
      [] pattern = "(.+?)="
         /\ content \in {"v=42", "v=42\n", "v=7", "v=7\n"}
            -> Matched("v=", Some("v"))
      [] pattern = "(\\d)" /\ content \in {"build 7\n", "build 7"}
            -> Matched("7", Some("7"))
      [] pattern = "(\\d)" /\ content \in {"version 3 build 7\n", "version 3", "3"}
            -> Matched("3", Some("3"))
      [] pattern = "version (\\d+)" /\ content = "version 3 build 7\n"
            -> Matched("version 3", Some("3"))
      [] pattern = "build (\\d+)" /\ content \in {"build 7\n", "version 3 build 7\n"}
            -> Matched("build 7", Some("7"))
      [] OTHER -> NoCaptures

\* i32::to_string on the exit codes of this model
to_string(exit_code) ==
    CASE exit_code = 0 -> "0"
      [] exit_code = 1 -> "1"
      [] exit_code = -1 -> "-1"

-----------------------------------------------------------------------------
(* Extraction: src/src/vars/mod.rs.  A Result<()> with the store it leaves  *)
(* is [ok, variables].                                                      *)

\* Mutant of cascade_loop: a pattern that matches without a capture group
\* ends the cascade with nothing extracted.
RECURSIVE cascade_loop_groups_only(_, _, _)
cascade_loop_groups_only(patterns, i, current_content) ==
    IF i > Len(patterns) THEN [ok |-> TRUE, value |-> None]
    ELSE IF ~regex_new_ok(patterns[i]) THEN [ok |-> FALSE, value |-> None]
    ELSE LET c == captures(patterns[i], current_content)
         IN  IF ~c.matched \/ c.group1 = None THEN [ok |-> TRUE, value |-> None]
             ELSE IF i = Len(patterns) THEN [ok |-> TRUE, value |-> c.group1]
             ELSE cascade_loop_groups_only(patterns, i + 1, unwrap(c.group1))

\* Mutant of cascade_loop: every pattern is matched against the source
\* content instead of what the previous pattern captured.
RECURSIVE cascade_loop_on_source(_, _, _)
cascade_loop_on_source(patterns, i, current_content) ==
    IF i > Len(patterns) THEN [ok |-> TRUE, value |-> None]
    ELSE IF ~regex_new_ok(patterns[i]) THEN [ok |-> FALSE, value |-> None]
    ELSE LET c == captures(patterns[i], current_content)
             matched_value == IF is_some(c.group1) THEN unwrap(c.group1) ELSE c.full
         IN  IF ~c.matched THEN [ok |-> TRUE, value |-> None]
             ELSE IF i = Len(patterns) THEN [ok |-> TRUE, value |-> Some(matched_value)]
             ELSE cascade_loop_on_source(patterns, i + 1, current_content)

\* The loop of extract_with_cascade from pattern i on, carrying
\* current_content; [ok, value]: Err, or Ok with extracted_value.
RECURSIVE cascade_loop(_, _, _)
cascade_loop(patterns, i, current_content) ==
    IF i > Len(patterns) THEN [ok |-> TRUE, value |-> None]
    ELSE IF ~regex_new_ok(patterns[i]) THEN [ok |-> FALSE, value |-> None]
    ELSE LET c == captures(patterns[i], current_content)
             matched_value == IF is_some(c.group1) THEN unwrap(c.group1) ELSE c.full
         IN  IF ~c.matched THEN [ok |-> TRUE, value |-> None]
             ELSE IF i = Len(patterns) THEN [ok |-> TRUE, value |-> Some(matched_value)]
             ELSE cascade_loop(patterns, i + 1, matched_value)

\* Mutant of extract_with_cascade: a cascade that extracts nothing clears the
\* value stored under the rule's name.
extract_with_cascade_clearing(variables, rule, source_content) ==
    LET r == cascade_loop(rule.patterns, 1, source_content)
    IN  [ok |-> r.ok,
         variables |-> IF r.ok /\ is_some(r.value)
                       THEN set_variable(variables, rule.name, unwrap(r.value))
                       ELSE remove_variable(variables, rule.name)]

extract_with_cascade(variables, rule, source_content) ==
    LET r == cascade_loop(rule.patterns, 1, source_content)
    IN  [ok |-> r.ok,
         variables |-> IF r.ok /\ is_some(r.value)
                       THEN set_variable(variables, rule.name, unwrap(r.value))
                       ELSE variables]

\* Mutant of fallback_loop: a later pattern that matches overwrites what an
\* earlier one extracted.
RECURSIVE fallback_loop_last_wins(_, _, _)
fallback_loop_last_wins(patterns, i, source_content) ==
    IF i > Len(patterns) THEN [ok |-> TRUE, value |-> None]
    ELSE IF ~regex_new_ok(patterns[i]) THEN [ok |-> FALSE, value |-> None]
    ELSE LET c == captures(patterns[i], source_content)
             later == fallback_loop_last_wins(patterns, i + 1, source_content)
         IN  IF ~later.ok \/ is_some(later.value) THEN later
             ELSE IF c.matched /\ is_some(c.group1)
             THEN [ok |-> TRUE, value |-> c.group1]
             ELSE later

\* The loop of extract_with_fallback from pattern i on.
RECURSIVE fallback_loop(_, _, _)
fallback_loop(patterns, i, source_content) ==
    IF i > Len(patterns) THEN [ok |-> TRUE, value |-> None]
    ELSE IF ~regex_new_ok(patterns[i]) THEN [ok |-> FALSE, value |-> None]
    ELSE LET c == captures(patterns[i], source_content)
         IN  IF c.matched /\ is_some(c.group1)
             THEN [ok |-> TRUE, value |-> c.group1]
             ELSE fallback_loop(patterns, i + 1, source_content)

extract_with_fallback(variables, rule, source_content) ==
    LET r == fallback_loop(rule.patterns, 1, source_content)
    IN  [ok |-> r.ok,
         variables |-> IF r.ok /\ is_some(r.value)
                       THEN set_variable(variables, rule.name, unwrap(r.value))
                       ELSE variables]

KnownSources == {"stdout", "stderr", "exit_code"}

source_content_of(rule, execution_result) ==
    CASE rule.source = "stdout" -> execution_result.stdout
      [] rule.source = "stderr" -> execution_result.stderr
      [] rule.source = "exit_code" -> to_string(execution_result.exit_code)

\* extract_variables from rule i on: an Err leaves what earlier rules stored.
RECURSIVE extract_rules_from(_, _, _, _)
extract_rules_from(variables, extract_rules, i, execution_result) ==
    IF i > Len(extract_rules) THEN [ok |-> TRUE, variables |-> variables]
    ELSE LET rule == extract_rules[i] IN
         IF rule.source \notin KnownSources
         THEN [ok |-> FALSE, variables |-> variables]
         ELSE LET r == IF rule.cascade
                       THEN extract_with_cascade(variables, rule,
                                source_content_of(rule, execution_result))
                       ELSE extract_with_fallback(variables, rule,
                                source_content_of(rule, execution_result))
              IN  IF ~r.ok THEN r
                  ELSE extract_rules_from(r.variables, extract_rules, i + 1,
                                          execution_result)

extract_variables(variables, extract_rules, execution_result) ==
    extract_rules_from(variables, extract_rules, 1, execution_result)

-----------------------------------------------------------------------------
(* Configurations: src/src/models/mod.rs.  The step fields title and         *)
(* variables are read by the executor (executor/mod.rs:97, :319).           *)

\* ExtractRule {name: ver, source: stdout, patterns: ["v=(\\d+)"]}
VerRule == [name |-> "ver", patterns |-> <<"v=(\\d+)">>, source |-> "stdout",
            cascade |-> FALSE]

\* Step "build": fan-out over two servers, extracts ver from stdout.
StepBuild == [name |-> "build", script |-> <<"build.sh">>,
              servers |-> <<"s1", "s2">>, variables |-> None,
              extract |-> Some(<<VerRule>>)]

\* Step "probe": one server, extracts ver from stdout.
StepProbe == [name |-> "probe", script |-> <<"build.sh">>,
              servers |-> <<"s1">>, variables |-> None,
              extract |-> Some(<<VerRule>>)]

\* Step "deploy": its script path embeds the extracted ver.
StepDeploy == [name |-> "deploy", script |-> <<"deploy-", "{{ ver }}", ".sh">>,
               servers |-> <<"s1">>, variables |-> None, extract |-> None]

\* Step "setenv": step-local variables; its script path names env, which
\* the document's variables block defines.
StepSetenv == [name |-> "setenv", script |-> <<"{{ env }}", ".sh">>,
               servers |-> <<"s2">>,
               variables |-> Some([k \in {"env"} |-> "b"]), extract |-> None]

\* Step "pin": step-local variables overwrite an extracted key; one server
\* is listed twice.
StepPin == [name |-> "pin", script |-> <<"build.sh">>, servers |-> <<"s2", "s2">>,
            variables |-> Some([k \in {"ver"} |-> "1"]), extract |-> None]

\* Step "local": no servers (local execution), extracts ver.
StepLocal == [name |-> "local", script |-> <<"build.sh">>, servers |-> <<>>,
              variables |-> None, extract |-> Some(<<VerRule>>)]

\* Step "ghost": names a server that is no client.
StepGhost == [name |-> "ghost", script |-> <<"build.sh">>, servers |-> <<"s9">>,
              variables |-> None, extract |-> None]

\* Step "bridge": targets the websocket client.
StepBridge == [name |-> "bridge", script |-> <<"build.sh">>,
               servers |-> <<"s1", "w1">>, variables |-> None, extract |-> None]

\* Step "socket": targets the websocket client only.
StepSocket == [name |-> "socket", script |-> <<"build.sh">>,
               servers |-> <<"w1">>, variables |-> None, extract |-> None]

\* A step whose name is the empty string.
StepUnnamed == [name |-> "", script |-> <<"build.sh">>, servers |-> <<"w1">>,
                variables |-> None, extract |-> None]

\* ExtractRule {name: ver, source: stdout, patterns: ["("]}: the pattern does
\* not compile.
LintRule == [name |-> "ver", patterns |-> <<InvalidPattern>>, source |-> "stdout",
             cascade |-> FALSE]

\* Step "lint": one server, an extract rule whose regex is invalid.
StepLint == [name |-> "lint", script |-> <<"build.sh">>, servers |-> <<"s1">>,
             variables |-> None, extract |-> Some(<<LintRule>>)]

PipelineRelease == [name |-> "release", steps |-> <<StepBuild, StepDeploy>>]

PipelineLint == [name |-> "lint", steps |-> <<StepLint, StepProbe>>]

\* A pipeline whose name is the empty string.
PipelineUnnamed == [name |-> "", steps |-> <<StepSocket>>]

\* A pipeline with a step whose name is the empty string.
PipelineUnnamedStep == [name |-> "socket", steps |-> <<StepUnnamed>>]

PipelineFull == [name |-> "full", steps |-> <<StepSetenv, StepBuild, StepDeploy>>]

\* Carries the name of PipelineRelease: nothing in the configuration model
\* or in validate_config makes pipeline names unique.
PipelinePinned == [name |-> "release", steps |-> <<StepProbe, StepPin, StepDeploy>>]

PipelineBridge == [name |-> "bridge", steps |-> <<StepBridge>>]

PipelineShort == [name |-> "short", steps |-> <<StepSetenv>>]

SshClient == [execution_method |-> "SSH", ssh_config |-> Some("ssh")]

WebSocketClient == [execution_method |-> "WebSocket", ssh_config |-> None]

Clients == [n \in {"s1", "s2", "w1"} |->
               IF n = "w1" THEN WebSocketClient ELSE SshClient]

InitialVariables == Some([k \in {"env"} |-> "a"])

\* Configurations validate_config accepts.
ValidConfigs ==
    { [variables |-> InitialVariables, clients |-> Clients, pipelines |-> ps] :
        ps \in { <<PipelineRelease>>,
                 <<PipelineFull>>,
                 <<PipelinePinned, PipelineRelease>>,
                 <<PipelineRelease, PipelinePinned>>,
                 <<PipelineBridge, PipelineShort>>,
                 <<PipelineShort, PipelineRelease>>,
                 <<PipelineLint>> } }
    \cup
    \* documents without a variables block
    { [variables |-> None, clients |-> Clients, pipelines |-> ps] :
        ps \in { <<PipelineUnnamed>>, <<PipelineUnnamedStep>> } }

\* Configurations that parse and that validate_config has to judge.
InvalidConfigs ==
    { [variables |-> None, clients |-> <<>>,
       pipelines |-> <<[name |-> "release", steps |-> <<StepBuild>>]>>],
      [variables |-> None, clients |-> Clients, pipelines |-> <<>>],
      [variables |-> None, clients |-> Clients,
       pipelines |-> <<[name |-> "empty", steps |-> <<>>]>>],
      [variables |-> None, clients |-> Clients,
       pipelines |-> <<[name |-> "local", steps |-> <<StepBuild, StepLocal>>]>>],
      [variables |-> None, clients |-> Clients,
       pipelines |-> <<[name |-> "ghost", steps |-> <<StepBuild, StepGhost>>]>>] }

Configs == ValidConfigs \cup InvalidConfigs

\* The caller's variables argument of from_yaml_str.
Overrides == {None, Some([k \in {"env"} |-> "o"])}

\* Script files that exist on the executor's host (Path::exists).
ExistingScripts == {"build.sh", "deploy-42.sh", "deploy-1.sh", "a.sh", "o.sh"}

\* What every script file holds (fs::read_to_string).
ScriptContent ==
    <<"echo ", "{{ ver }}", "{{ env }}", "{{ pipeline_name }}", "{{ step_name }}">>

-----------------------------------------------------------------------------
(* Validation: src/src/config/mod.rs *)

Range(f) == {f[i] : i \in DOMAIN f}

\* Mutant of validate_config: the servers of a step are not looked up.
validate_config_any_server(cfg) ==
    /\ DOMAIN cfg.clients # {}
    /\ cfg.pipelines # <<>>
    /\ \A i \in DOMAIN cfg.pipelines :
          /\ cfg.pipelines[i].steps # <<>>
          /\ \A j \in DOMAIN cfg.pipelines[i].steps :
                cfg.pipelines[i].steps[j].servers # <<>>

\* validate_config(config).is_ok()
validate_config(cfg) ==
    /\ DOMAIN cfg.clients # {}
    /\ cfg.pipelines # <<>>
    /\ \A i \in DOMAIN cfg.pipelines :
          /\ cfg.pipelines[i].steps # <<>>
          /\ \A j \in DOMAIN cfg.pipelines[i].steps :
                LET step == cfg.pipelines[i].steps[j] IN
                /\ step.servers # <<>>
                /\ \A server \in Range(step.servers) :
                      server \in DOMAIN cfg.clients

-----------------------------------------------------------------------------
(* Results and events: src/src/models/mod.rs *)

\* Result<T>: not yet returned, Ok(value), Err(error)
NoRet == [kind |-> "none"]

Ok(v) == [kind |-> "ok", value |-> v]

Err(e) == [kind |-> "err", error |-> e]

ExecutionResult(success, stdout, stderr, script, exit_code, error_message) ==
    [success |-> success, stdout |-> stdout, stderr |-> stderr,
     script |-> script, exit_code |-> exit_code,
     error_message |-> error_message]

StepExecutionResult(step, server_name, execution_result) ==
    [step_name |-> step.name, server_name |-> server_name,
     execution_result |-> execution_result,
     overall_success |-> execution_result.success]

\* Whether the caller passed an output_callback and a log_callback.
Callbacks == {[output |-> TRUE, log |-> TRUE], [output |-> FALSE, log |-> FALSE]}

OutputEvent(sink, output_type, pipeline_name, server_name, step_name, content, variables) ==
    [sink |-> sink, output_type |-> output_type,
     pipeline_name |-> pipeline_name, server_name |-> server_name,
     step_name |-> step_name, content |-> content, variables |-> variables]

\* if let Some(callback) = &cb { callback(event) }
emit(evs, enabled, event) == IF enabled THEN Append(evs, event) ELSE evs

-----------------------------------------------------------------------------
(* The transports' outcomes *)

\* What a script that ran can end with: exit status and stdout.
RunOutcomes ==
    { [exit_code |-> 0, lines |-> <<"v=42">>],
      [exit_code |-> 0, lines |-> <<"v=7">>],
      [exit_code |-> 1, lines |-> <<"v=7">>] }

\* stdout as a transport accumulates it: every line with its newline.
RECURSIVE accumulate(_)
accumulate(lines) ==
    IF lines = <<>> THEN "" ELSE Head(lines) \o "\n" \o accumulate(Tail(lines))

\* One Stdout event per line read, carrying the transport's variables.
stdout_events(lines, pipeline_name, server_name, step_name, variables) ==
    [i \in DOMAIN lines |->
        OutputEvent("output", "Stdout", pipeline_name, server_name, step_name,
                    lines[i], variables)]

\* LocalExecutor::execute_script_with_realtime_output: the outcomes it can
\* have, each [result, script_content, events]: src/src/ssh/local.rs
local_execute(step, pipeline_name, output, variables) ==
    IF Flatten(step.script) \notin ExistingScripts
    THEN {[result |-> Err("Script not found"), script_content |-> <<>>,
           events |-> <<>>]}
    ELSE LET started == emit(<<>>, output,
                 OutputEvent("output", "Log", pipeline_name, "localhost",
                             step.name, "local script started", variables))
         IN  { [result |-> Err("Local script execution timed out"),
                script_content |-> content, events |-> started] :
               content \in replace_variables(variables, ScriptContent) }
             \cup
             { [result |-> Ok(ExecutionResult(o.exit_code = 0,
                                accumulate(o.lines), "", Flatten(step.script),
                                o.exit_code,
                                IF o.exit_code = 0 THEN None
                                ELSE Some("Script exited with code"))),
                script_content |-> content,
                events |->
                    emit(started \o (IF output
                                     THEN stdout_events(o.lines, pipeline_name,
                                              "localhost", step.name, variables)
                                     ELSE <<>>),
                         output,
                         OutputEvent("output", "Log", pipeline_name, "localhost",
                                     step.name,
                                     IF o.exit_code = 0
                                     THEN "local script completed: success"
                                     ELSE "local script completed: failure",
                                     variables))] :
               o \in RunOutcomes,
               content \in replace_variables(variables, ScriptContent) }

-----------------------------------------------------------------------------
(* The engine's locals: src/src/executor/mod.rs *)

NoCallbacks == [output |-> FALSE, log |-> FALSE]

\* Step::default()
DefaultStep == [name |-> "", script |-> <<>>, servers |-> <<>>,
                variables |-> None, extract |-> None]

\* execute_all_pipelines_with_realtime_output: pipeline_names, the loop
\* index, results; active while the call is in progress.
NoAllFrame == [active |-> FALSE, cb |-> NoCallbacks, pipeline_names |-> <<>>,
               i |-> 0, results |-> <<>>]

\* execute_pipeline_with_realtime_output: pipeline, the index of the step
\* of the loop, all_step_results, and what the call returned.
NoPipeFrame == [pipeline |-> [name |-> "", steps |-> <<>>], cb |-> NoCallbacks,
                i |-> 0, all_step_results |-> <<>>, returned |-> NoRet]

\* execute_step_with_realtime_output: step (as configured), the
\* step_with_variables it was passed, clone_variable_manager, what it returned.
NoStepFrame == [pipeline_name |-> "", step |-> DefaultStep,
                step_with_variables |-> DefaultStep,
                clone_variable_manager |-> NoVars, returned |-> NoRet]

\* Mutant of step_success: the pipeline never stops on a failed step.
step_success_always(step_results) == TRUE

\* step_results.iter().all(|r| r.execution_result.success)  (line 141)
step_success(step_results) ==
    \A i \in DOMAIN step_results : step_results[i].execution_result.success

\* Mutant of overall_success: any() in place of all().
overall_success_any(all_step_results) ==
    \E i \in DOMAIN all_step_results : all_step_results[i].execution_result.success

\* all_step_results.iter().all(|r| r.execution_result.success)  (line 171)
overall_success(all_step_results) ==
    \A i \in DOMAIN all_step_results : all_step_results[i].execution_result.success

\* ShellExecutionResult { success: true, reason: "ok", pipeline_results }
ShellExecutionResult(results) ==
    [success |-> TRUE, reason |-> "ok", pipeline_results |-> results]


\* Mutant of merge_step_variables: the store is replaced by the step's
\* variables.
merge_step_variables_replacing(variables, step) ==
    IF is_some(step.variables) THEN unwrap(step.variables) ELSE variables

\* Mutant of merge_step_variables: a value already in the store wins.
merge_step_variables_keeping(variables, step) ==
    IF is_some(step.variables) THEN extend(unwrap(step.variables), variables)
    ELSE variables

\* Mutant of merge_step_variables: the step's variables are not merged.
merge_step_variables_skipped(variables, step) == variables

\* Lines 97-102: step.variables set into the store.
merge_step_variables(variables, step) ==
    IF is_some(step.variables) THEN extend(variables, unwrap(step.variables))
    ELSE variables

\* Mutant of task_variable_manager: step_name is not set.
task_variable_manager_no_step_name(clone_variable_manager, pipeline_name, step_name) ==
    set_variable(clone_variable_manager, "pipeline_name", pipeline_name)

\* Lines 351-353: the store a server task is given.
task_variable_manager(clone_variable_manager, pipeline_name, step_name) ==
    set_variable(set_variable(clone_variable_manager,
                              "pipeline_name", pipeline_name),
                 "step_name", step_name)

\* Lines 301-303: the variables the local transport is given.
local_variables(variables, pipeline_name, step_name) ==
    set_variable(set_variable(variables, "pipeline_name", pipeline_name),
                 "step_name", step_name)

\* Mutant of server_names: a task for the first server only.
server_names_first(step) == SubSeq(step.servers, 1, 1)

\* Line 339: the servers a task is spawned for.
server_names(step) == step.servers

\* Lines 340-377: the tasks spawned before the loop ends or meets a server
\* that is no client.
RECURSIVE spawn_loop(_, _, _, _)
spawn_loop(names, i, clients, task_variables) ==
    IF i > Len(names) \/ names[i] \notin DOMAIN clients THEN <<>>
    ELSE <<[server_name |-> names[i], state |-> "spawned",
            variable_manager |-> task_variables, script_content |-> <<>>,
            events |-> <<>>, ssh |-> NoRet, result |-> NoRet]>>
         \o spawn_loop(names, i + 1, clients, task_variables)

\* Mutant of join_loop: a task that returned an Err is passed over.
RECURSIVE join_loop_skipping_errors(_, _, _, _, _)
join_loop_skipping_errors(results, i, step, step_results, extracted_vars) ==
    IF i > Len(results)
    THEN [ok |-> TRUE, error |-> "", step_results |-> step_results,
          extracted_vars |-> extracted_vars]
    ELSE IF results[i].result.kind = "err"
    THEN join_loop_skipping_errors(results, i + 1, step, step_results,
                                   extracted_vars)
    ELSE LET execution_result == results[i].result.value
             temp_vm == IF is_some(step.extract)
                        THEN extract_variables(NoVars, unwrap(step.extract),
                                               execution_result)
                        ELSE [ok |-> FALSE, variables |-> NoVars]
         IN  join_loop_skipping_errors(results, i + 1, step,
                 Append(step_results,
                        StepExecutionResult(step, results[i].server_name,
                                            execution_result)),
                 IF temp_vm.ok THEN Append(extracted_vars, temp_vm.variables)
                 ELSE extracted_vars)

\* Mutant of join_loop: an extraction error is returned as the step's error.
RECURSIVE join_loop_extract_error_returned(_, _, _, _, _)
join_loop_extract_error_returned(results, i, step, step_results, extracted_vars) ==
    IF i > Len(results)
    THEN [ok |-> TRUE, error |-> "", step_results |-> step_results,
          extracted_vars |-> extracted_vars]
    ELSE IF results[i].result.kind = "err"
    THEN [ok |-> FALSE, error |-> results[i].result.error,
          step_results |-> step_results, extracted_vars |-> extracted_vars]
    ELSE LET execution_result == results[i].result.value
             temp_vm == IF is_some(step.extract)
                        THEN extract_variables(NoVars, unwrap(step.extract),
                                               execution_result)
                        ELSE [ok |-> TRUE, variables |-> NoVars]
         IN  IF ~temp_vm.ok
             THEN [ok |-> FALSE, error |-> "Invalid regex pattern",
                   step_results |-> step_results, extracted_vars |-> extracted_vars]
             ELSE join_loop_extract_error_returned(results, i + 1, step,
                     Append(step_results,
                            StepExecutionResult(step, results[i].server_name,
                                                execution_result)),
                     Append(extracted_vars, temp_vm.variables))

\* Lines 382-415: the loop over the joined results from result i on;
\* extracted_vars is kept as one map per server (the pairs of one temp_vm
\* have distinct keys, so their order among themselves is immaterial).
RECURSIVE join_loop(_, _, _, _, _)
join_loop(results, i, step, step_results, extracted_vars) ==
    IF i > Len(results)
    THEN [ok |-> TRUE, error |-> "", step_results |-> step_results,
          extracted_vars |-> extracted_vars]
    ELSE IF results[i].result.kind = "err"
    THEN [ok |-> FALSE, error |-> results[i].result.error,
          step_results |-> step_results, extracted_vars |-> extracted_vars]
    ELSE LET execution_result == results[i].result.value
             temp_vm == IF is_some(step.extract)
                        THEN extract_variables(NoVars, unwrap(step.extract),
                                               execution_result)
                        ELSE [ok |-> FALSE, variables |-> NoVars]
         IN  join_loop(results, i + 1, step,
                 Append(step_results,
                        StepExecutionResult(step, results[i].server_name,
                                            execution_result)),
                 IF temp_vm.ok THEN Append(extracted_vars, temp_vm.variables)
                 ELSE extracted_vars)

\* Mutant of merge_extracted: the value of an earlier server is kept.
RECURSIVE merge_extracted_first_wins(_, _)
merge_extracted_first_wins(variables, extracted_vars) ==
    IF extracted_vars = <<>> THEN variables
    ELSE extend(merge_extracted_first_wins(variables, Tail(extracted_vars)),
                Head(extracted_vars))

\* Mutant of merge_extracted: the extracted variables are not merged.
merge_extracted_dropped(variables, extracted_vars) == variables

\* Lines 417-419: for (k, v) in extracted_vars { set_variable(k, v) }
RECURSIVE merge_extracted(_, _)
merge_extracted(variables, extracted_vars) ==
    IF extracted_vars = <<>> THEN variables
    ELSE merge_extracted(extend(variables, Head(extracted_vars)),
                         Tail(extracted_vars))

-----------------------------------------------------------------------------
(* Construction: RemoteExecutor::from_yaml_str, lines 35-58 *)

\* No for block is being rendered.
NoLoop == [full_match |-> <<>>, item_name |-> "", loop_content |-> <<>>,
           items |-> <<>>, loop_result |-> <<>>, rendered |-> <<>>]

\* TemplateEngine::new(): no variables, no template directory, newlines of
\* loops preserved, nothing being rendered.  turn is the parity of the turns
\* the while loop being run has taken: a turn that leaves the text as it is
\* is a step of the program all the same.
NoTemplateEngine == [variables |-> NoVars, template_dir |-> None,
                     preserve_loop_newlines |-> TRUE, pc |-> "idle",
                     template |-> <<>>, result |-> <<>>, ret |-> NoRet,
                     loop |-> NoLoop, turn |-> 0]

\* No transport is run by itself.
NoTransport == [kind |-> "none", pc |-> "returned", has_callback |-> FALSE,
                out |-> <<>>, err |-> <<>>, exit_code |-> 0,
                temp_file |-> "none", child |-> "none", ret |-> NoRet]

\* The two streams of a script, nothing read.
NoReaders == [s \in {"stdout", "stderr"} |->
                 [state |-> "idle", pos |-> 0, content |-> ""]]

\* Nothing queued for the callback, nothing delivered to it.
NoDelivery == [queue |-> <<>>, handler |-> "none", delivered |-> <<>>]

\* No call has been made on the VariableManager.
NoCall == [op |-> "none", text |-> <<>>, again |-> FALSE, extract_rules |-> <<>>,
           execution_result |-> ExecutionResult(TRUE, "", "", "", 0, None),
           before |-> NoVars]

\* No RemoteExecutor has been constructed.
NoConfig == [variables |-> None, clients |-> <<>>, pipelines |-> <<>>]

Init ==
    /\ yaml_content \in Configs
    /\ config = NoConfig
    /\ overrides \in Overrides
    /\ executor = "none"
    /\ variable_manager = NoVars
    /\ pc = "idle"
    /\ all_frame = NoAllFrame
    /\ pipe_frame = NoPipeFrame
    /\ step_frame = NoStepFrame
    /\ tasks = <<>>
    /\ events = <<>>
    /\ ret = NoRet
    /\ calls = 0
    /\ vm = NoVars
    /\ vm_call = NoCall
    /\ vm_ret = NoRet
    /\ transport = NoTransport
    /\ readers = NoReaders
    /\ callback = NoDelivery
    /\ template_engine = NoTemplateEngine

\* Mutant of all_variables: the value of the variables block wins.
all_variables_block_wins(cfg, given) ==
    extend(IF is_some(given) THEN unwrap(given) ELSE NoVars,
           IF is_some(cfg.variables) THEN unwrap(cfg.variables) ELSE NoVars)

\* Lines 40-48: the YAML variables block extended by the caller's variables.
all_variables(cfg, given) ==
    extend(IF is_some(cfg.variables) THEN unwrap(cfg.variables) ELSE NoVars,
           IF is_some(given) THEN unwrap(given) ELSE NoVars)

\* config/mod.rs 38-47: replace_variables runs over the whole document
\* before it is parsed, so every script path of it is substituted; order is
\* the iteration order of that one call.
from_yaml_str_with_variables(yaml, variables, order) ==
    [yaml EXCEPT !.pipelines =
        [p \in DOMAIN yaml.pipelines |->
            [yaml.pipelines[p] EXCEPT !.steps =
                [s \in DOMAIN yaml.pipelines[p].steps |->
                    [yaml.pipelines[p].steps[s] EXCEPT !.script =
                        replace_in_order(variables, order, @)]]]]]

from_yaml_str ==
    /\ executor = "none"
    /\ LET variables == all_variables(yaml_content, overrides) IN
       \E order \in KeyOrders(DOMAIN variables) :
          LET loaded == from_yaml_str_with_variables(yaml_content, variables,
                                                     order)
          IN  IF validate_config(loaded)
              THEN /\ executor' = "ready"
                   /\ config' = loaded
                   /\ variable_manager' = variables
              ELSE /\ executor' = "rejected"
                   /\ config' = config
                   /\ variable_manager' = variable_manager
    /\ UNCHANGED <<template_engine, transport_vars, vm, vm_call, vm_ret, yaml_content, overrides, pc, all_frame, pipe_frame,
                   step_frame, tasks, events, ret, calls>>

-----------------------------------------------------------------------------
(* How execute_pipeline_with_realtime_output ends and what its caller does *)

\* execute_pipeline returns outcome, having emitted evs: to the API caller
\* (all is not active), or to execute_all with locals all (lines 259-273).
pipeline_returns(outcome, evs, all) ==
    /\ events' = evs
    /\ IF ~all.active
       THEN /\ ret' = outcome
            /\ pc' = "idle"
            /\ all_frame' = all
       ELSE IF outcome.kind = "err"
       THEN /\ ret' = outcome
            /\ pc' = "idle"
            /\ all_frame' = [all EXCEPT !.active = FALSE]
       ELSE LET results == Append(all.results, outcome.value) IN
            IF ~outcome.value.overall_success
            THEN /\ ret' = Ok(ShellExecutionResult(results))
                 /\ pc' = "idle"
                 /\ all_frame' = [all EXCEPT !.active = FALSE,
                                             !.results = results]
            ELSE /\ ret' = NoRet
                 /\ pc' = "all_loop"
                 /\ all_frame' = [all EXCEPT !.results = results, !.i = @ + 1]

\* Lines 170-195: the pipeline's loop is over (ended or broken).
finish_pipeline(all_step_results, variables, evs) ==
    LET success == overall_success(all_step_results)
        result == [pipeline_name |-> pipe_frame.pipeline.name,
                   step_results |-> all_step_results,
                   overall_success |-> success]
    IN  /\ pipe_frame' = [pipe_frame EXCEPT
                             !.all_step_results = all_step_results,
                             !.returned = Ok(result)]
        /\ pipeline_returns(Ok(result),
              emit(evs, pipe_frame.cb.log,
                   OutputEvent("log", "Log", pipe_frame.pipeline.name, "system",
                               "", IF success THEN "pipeline completed: success"
                                   ELSE "pipeline completed: failure",
                               variables)),
              all_frame)

\* Lines 138-168: execute_step returned outcome, leaving the store variables.
after_step(outcome, variables, evs) ==
    IF outcome.kind = "err"
    THEN /\ pipe_frame' = [pipe_frame EXCEPT !.returned = outcome]
         /\ pipeline_returns(outcome, evs, all_frame)
    ELSE LET step == pipe_frame.pipeline.steps[pipe_frame.i]
             success == step_success(outcome.value)
             all_step_results == pipe_frame.all_step_results \o outcome.value
             evs2 == emit(evs, pipe_frame.cb.output,
                        OutputEvent("output", "StepCompleted",
                            pipe_frame.pipeline.name, "system", step.name,
                            IF success THEN "step completed: success"
                            ELSE "step completed: failure", variables))
         IN  IF ~success
             THEN finish_pipeline(all_step_results, variables, evs2)
             ELSE /\ pipe_frame' = [pipe_frame EXCEPT
                                      !.all_step_results = all_step_results,
                                      !.i = @ + 1]
                  /\ pc' = "pipe_loop"
                  /\ events' = evs2
                  /\ ret' = NoRet
                  /\ all_frame' = all_frame

\* Lines 67-91: the pipeline is looked up by name, first match.
find_pipeline(cfg, pipeline_name) ==
    LET found == {i \in DOMAIN cfg.pipelines :
                     cfg.pipelines[i].name = pipeline_name}
    IN  IF found = {} THEN None
        ELSE Some(cfg.pipelines[CHOOSE i \in found : \A j \in found : i <= j])

\* Lines 61-91: execute_pipeline_with_realtime_output is entered.
enter_pipeline(pipeline_name, cb, evs, all) ==
    LET pipeline == find_pipeline(config, pipeline_name) IN
    IF ~is_some(pipeline)
    THEN /\ pipe_frame' = [NoPipeFrame EXCEPT !.cb = cb,
                              !.returned = Err("Pipeline not found")]
         /\ pipeline_returns(Err("Pipeline not found"), evs, all)
    ELSE /\ pipe_frame' = [pipeline |-> unwrap(pipeline), cb |-> cb, i |-> 1,
                           all_step_results |-> <<>>, returned |-> NoRet]
         /\ pc' = "pipe_loop"
         /\ ret' = NoRet
         /\ all_frame' = all
         /\ events' = emit(evs, cb.log,
                OutputEvent("log", "Log", pipeline_name, "system", "",
                            "pipeline started", variable_manager))

-----------------------------------------------------------------------------
(* The API calls *)

\* The names a caller may pass to execute_pipeline.
PipelineNames == {"release", "full", "short", "bridge", "lint", "missing"}

\* execute_pipeline_with_realtime_output(pipeline_name, ...) is called
\* (execute_pipeline, line 277, is the call without callbacks).
CallExecutePipeline(pipeline_name, cb) ==
    /\ executor = "ready"
    /\ pc = "idle"
    /\ calls < MaxCalls
    /\ calls' = calls + 1
    /\ enter_pipeline(pipeline_name, cb, <<>>, NoAllFrame)
    /\ step_frame' = NoStepFrame
    /\ tasks' = <<>>
    /\ UNCHANGED <<template_engine, transport_vars, vm, vm_call, vm_ret, yaml_content, config, overrides, executor, variable_manager>>

\* Lines 198-242: execute_all_pipelines_with_realtime_output is called.
CallExecuteAll(cb) ==
    /\ executor = "ready"
    /\ pc = "idle"
    /\ calls < MaxCalls
    /\ calls' = calls + 1
    /\ events' =
         IF cb.log
         THEN << OutputEvent("log", "Log", "system", "system", "", "banner",
                             variable_manager),
                 OutputEvent("log", "Log", "system", "system", "",
                             "configuration loaded", variable_manager),
                 OutputEvent("log", "Log", "system", "system", "",
                             "execution mode", variable_manager) >>
         ELSE <<>>
    /\ all_frame' = [active |-> TRUE, cb |-> cb,
                     pipeline_names |-> [i \in DOMAIN config.pipelines |->
                                            config.pipelines[i].name],
                     i |-> 1, results |-> <<>>]
    /\ pc' = "all_loop"
    /\ ret' = NoRet
    /\ pipe_frame' = NoPipeFrame
    /\ step_frame' = NoStepFrame
    /\ tasks' = <<>>
    /\ UNCHANGED <<template_engine, transport_vars, vm, vm_call, vm_ret, yaml_content, config, overrides, executor, variable_manager>>

\* Lines 243-273: the head of execute_all's loop.
AllLoop ==
    /\ pc = "all_loop"
    /\ IF all_frame.i <= Len(all_frame.pipeline_names)
       THEN LET pipeline_name == all_frame.pipeline_names[all_frame.i] IN
            enter_pipeline(pipeline_name, all_frame.cb,
                emit(events, all_frame.cb.log,
                     OutputEvent("log", "Log", pipeline_name, "system", "",
                                 "pipeline started", variable_manager)),
                all_frame)
       ELSE /\ ret' = Ok(ShellExecutionResult(all_frame.results))
            /\ pc' = "idle"
            /\ all_frame' = [all_frame EXCEPT !.active = FALSE]
            /\ UNCHANGED <<pipe_frame, events>>
    /\ UNCHANGED <<template_engine, transport_vars, vm, vm_call, vm_ret, yaml_content, config, overrides, executor, variable_manager, step_frame,
                   tasks, calls>>

-----------------------------------------------------------------------------
(* Steps *)

\* A transport invocation of the step: a spawned server task, or the one
\* local run.
Task(server_name, state, variables, script_content, evs, result) ==
    [server_name |-> server_name, state |-> state,
     variable_manager |-> variables, script_content |-> script_content,
     events |-> evs, ssh |-> NoRet, result |-> result]

\* Lines 282-377: execute_step_with_realtime_output is entered with
\* step_with_variables; variables is the store (step variables merged).
execute_step(step, step_with_variables, variables, evs) ==
    LET pipeline_name == pipe_frame.pipeline.name
        frame == [pipeline_name |-> pipeline_name, step |-> step,
                  step_with_variables |-> step_with_variables,
                  clone_variable_manager |-> variables, returned |-> NoRet]
    IN
    IF step_with_variables.servers = <<>>
    THEN \* lines 294-327: local execution
         \E o \in local_execute(step_with_variables, pipeline_name,
                                pipe_frame.cb.output,
                                local_variables(variables, pipeline_name,
                                                step_with_variables.name)) :
            LET extracted ==
                    IF o.result.kind = "ok" /\ is_some(step_with_variables.extract)
                    THEN extract_variables(variables,
                             unwrap(step_with_variables.extract),
                             o.result.value).variables
                    ELSE variables
                outcome ==
                    IF o.result.kind = "err" THEN o.result
                    ELSE Ok(<<StepExecutionResult(step_with_variables,
                                    "localhost", o.result.value)>>)
            IN  /\ tasks' = <<Task("localhost", "done",
                                   local_variables(variables, pipeline_name,
                                                   step_with_variables.name),
                                   o.script_content, <<>>, o.result)>>
                /\ step_frame' = [frame EXCEPT !.returned = outcome]
                /\ variable_manager' = extracted
                /\ after_step(outcome, extracted, evs \o o.events)
    ELSE \* lines 329-377: one task per server
         LET spawned == spawn_loop(server_names(step_with_variables), 1,
                            config.clients,
                            task_variable_manager(variables, pipeline_name,
                                                  step_with_variables.name))
         IN  /\ tasks' = spawned
             /\ variable_manager' = variables
             /\ IF Len(spawned) < Len(server_names(step_with_variables))
                THEN /\ step_frame' = [frame EXCEPT
                                         !.returned = Err("Server not found")]
                     /\ after_step(Err("Server not found"), variables, evs)
                ELSE /\ step_frame' = frame
                     /\ pc' = "join"
                     /\ events' = evs
                     /\ ret' = NoRet
                     /\ UNCHANGED <<all_frame, pipe_frame>>

\* Lines 94-138 and 170-195: the head of the pipeline's loop.
PipeLoop ==
    /\ pc = "pipe_loop"
    /\ IF pipe_frame.i > Len(pipe_frame.pipeline.steps)
       THEN /\ finish_pipeline(pipe_frame.all_step_results, variable_manager,
                               events)
            /\ UNCHANGED <<variable_manager, step_frame, tasks>>
       ELSE LET step == pipe_frame.pipeline.steps[pipe_frame.i]
                merged == merge_step_variables(variable_manager, step)
                started == OutputEvent("output", "StepStarted",
                               pipe_frame.pipeline.name, "system", step.name,
                               "step started", merged)
                logged == OutputEvent("log", "Log", pipe_frame.pipeline.name,
                               "system", step.name, "step started", merged)
            IN  \E script \in replace_variables(merged, step.script) :
                   execute_step(step, [step EXCEPT !.script = script], merged,
                       emit(emit(events, pipe_frame.cb.output, started),
                            pipe_frame.cb.log, logged))
    /\ UNCHANGED <<template_engine, transport_vars, vm, vm_call, vm_ret, yaml_content, config, overrides, executor, calls>>

\* Lines 430-456 and ssh/mod.rs 36-41: a server task starts: the script is
\* looked up, the client resolved, the script read and substituted.
TaskBegin(i) ==
    /\ i \in DOMAIN tasks
    /\ tasks[i].state = "spawned"
    /\ LET step == step_frame.step_with_variables
           client == config.clients[tasks[i].server_name]
           fails(e) == tasks' = [tasks EXCEPT ![i].state = "done",
                                              ![i].result = Err(e)]
       IN  IF Flatten(step.script) \notin ExistingScripts
           THEN fails("Script not found")
           ELSE IF tasks[i].server_name \notin DOMAIN config.clients
           THEN fails("Client not found")
           ELSE IF client.execution_method = "WebSocket"
           THEN fails("WebSocket execution not implemented yet")
           ELSE IF ~is_some(client.ssh_config)
           THEN fails("SSH configuration not found")
           ELSE \E content \in replace_variables(tasks[i].variable_manager,
                                                 ScriptContent) :
                   tasks' = [tasks EXCEPT ![i].state = "running",
                                          ![i].script_content = content]
    /\ UNCHANGED <<template_engine, transport_vars, vm, vm_call, vm_ret, yaml_content, config, overrides, executor, variable_manager, pc, all_frame,
                   pipe_frame, step_frame, events, ret, calls>>

\* ssh/mod.rs 50-103: the failures of the transport before the script runs,
\* each the context of the Err that SshExecutor returns.
SshFailures == {"Failed to connect to SSH server",
                "SSH password authentication failed"}

\* Mutant of execute_script_via_ssh_with_realtime_output: the transport's Err
\* is returned to the caller.
execute_script_via_ssh_propagating(result, script_content) ==
    IF result.kind = "err" THEN result
    ELSE Ok(ExecutionResult(result.value.exit_code = 0, result.value.stdout,
                            result.value.stderr, script_content,
                            result.value.exit_code, result.value.error_message))

\* Lines 496-522: what execute_script_via_ssh_with_realtime_output makes of
\* the Result that SshExecutor returned.
execute_script_via_ssh_with_realtime_output(result, script_content) ==
    IF result.kind = "err"
    THEN Ok(ExecutionResult(FALSE, "", "", script_content, 0, Some("join faield")))
    ELSE Ok(ExecutionResult(result.value.exit_code = 0, result.value.stdout,
                            result.value.stderr, script_content,
                            result.value.exit_code, result.value.error_message))

\* Lines 482-522 and ssh/mod.rs 43-216: the SSH transport ends: with an
\* error (turned into a failed result), or with the script's exit status.
TaskFinish(i) ==
    /\ i \in DOMAIN tasks
    /\ tasks[i].state = "running"
    /\ LET step == step_frame.step_with_variables
           script == Flatten(step.script)
       IN  \/ \E e \in SshFailures :
                tasks' = [tasks EXCEPT
                   ![i].state = "done",
                   ![i].ssh = Err(e),
                   ![i].result =
                       execute_script_via_ssh_with_realtime_output(Err(e), script)]
           \/ \E o \in RunOutcomes :
                LET execution_result ==
                        ExecutionResult(o.exit_code = 0, accumulate(o.lines),
                                        "", script, o.exit_code, None)
                IN  tasks' = [tasks EXCEPT
                       ![i].state = "done",
                       ![i].events =
                           IF pipe_frame.cb.output
                           THEN stdout_events(o.lines, step_frame.pipeline_name,
                                    tasks[i].server_name, step.name,
                                    tasks[i].variable_manager)
                           ELSE <<>>,
                       ![i].variable_manager =
                           IF is_some(step.extract)
                           THEN extract_variables(@, unwrap(step.extract),
                                                  execution_result).variables
                           ELSE @,
                       ![i].ssh = Ok(execution_result),
                       ![i].result =
                           execute_script_via_ssh_with_realtime_output(
                               Ok(execution_result), script)]
    /\ UNCHANGED <<template_engine, transport_vars, vm, vm_call, vm_ret, yaml_content, config, overrides, executor, variable_manager, pc, all_frame,
                   pipe_frame, step_frame, events, ret, calls>>

\* Line 380: join_all(futures).await has every task's result.
all_joined(ts) == \A i \in DOMAIN ts : ts[i].state = "done"

\* Lines 380-421: the results are collected, the extracted variables merged.
Join ==
    /\ pc = "join"
    /\ all_joined(tasks)
    /\ LET step == step_frame.step_with_variables
           r == join_loop(tasks, 1, step, <<>>, <<>>)
           merged == merge_extracted(variable_manager, r.extracted_vars)
       IN  IF ~r.ok
           THEN /\ step_frame' = [step_frame EXCEPT !.returned = Err(r.error)]
                /\ variable_manager' = variable_manager
                /\ after_step(Err(r.error), variable_manager, events)
           ELSE /\ step_frame' = [step_frame EXCEPT
                                    !.returned = Ok(r.step_results)]
                /\ variable_manager' = merged
                /\ after_step(Ok(r.step_results), merged, events)
    /\ UNCHANGED <<template_engine, transport_vars, vm, vm_call, vm_ret, yaml_content, config, overrides, executor, tasks, calls>>

-----------------------------------------------------------------------------

Next ==
    \/ from_yaml_str
    \/ \E pipeline_name \in PipelineNames, cb \in Callbacks :
          CallExecutePipeline(pipeline_name, cb)
    \/ \E cb \in Callbacks : CallExecuteAll(cb)
    \/ AllLoop
    \/ PipeLoop
    \/ \E i \in DOMAIN tasks : TaskBegin(i)
    \/ \E i \in DOMAIN tasks : TaskFinish(i)
    \/ Join

Spec == Init /\ [][Next]_vars

-----------------------------------------------------------------------------
(* The VariableManager by itself: src/src/vars/mod.rs.  A manager is built   *)
(* over a store and its public methods are called in any order; no          *)
(* RemoteExecutor exists in these behaviours.                               *)

\* VariableManager::new(initial_variables): the stores it is built over.
Stores ==
    { NoVars,
      [k \in {"a"} |-> "x"],
      [k \in {"a", "b"} |-> IF k = "a" THEN "x" ELSE "y"],
      [k \in {"a", "b"} |-> IF k = "a" THEN "{{ b }}" ELSE "x"],
      [k \in {"a"} |-> "{{ a }}"],
      [k \in {"tok"} |-> "old"] }

\* The contents replace_variables is called on.
Texts ==
    { <<"{{ a }}">>,
      <<"{{ a }}", "-", "{{ b }}">>,
      <<"echo ", "{{ c }}">>,
      <<"{{ tok }}", "/", "{{ a }}">> }

\* ExtractRule {name: tok, patterns: ["token: (.*)", "(.+?)="], cascade: true}
TokRule == [name |-> "tok", patterns |-> <<"token: (.*)", "(.+?)=">>,
            source |-> "stdout", cascade |-> TRUE]

\* ExtractRule {name: d, patterns: ["v=(\\d+)", "(\\d)"], cascade: true}
DigitRule == [name |-> "d", patterns |-> <<"v=(\\d+)", "(\\d)">>,
              source |-> "stdout", cascade |-> TRUE]

\* ExtractRule {name: d, patterns: ["v=\\d+", "(\\d)"], cascade: true}: the
\* first pattern has no capture group.
FullRule == [name |-> "d", patterns |-> <<"v=\\d+", "(\\d)">>,
             source |-> "stdout", cascade |-> TRUE]

\* ExtractRule {name: tok, patterns: ["v=\\d+"], cascade: true}: the last
\* pattern has no capture group.
WholeRule == [name |-> "tok", patterns |-> <<"v=\\d+">>, source |-> "stdout",
              cascade |-> TRUE]

\* ExtractRule {name: tok, patterns: ["v=(\\d+)", "(.+?)="], cascade: true}:
\* the second pattern never matches what the first captures.
MissRule == [name |-> "tok", patterns |-> <<"v=(\\d+)", "(.+?)=">>,
             source |-> "stdout", cascade |-> TRUE]

\* ExtractRule {name: d, patterns: ["v=(\\d+)", "("], cascade: true}: the
\* second pattern does not compile.
BadRule == [name |-> "d", patterns |-> <<"v=(\\d+)", InvalidPattern>>,
            source |-> "stdout", cascade |-> TRUE]

\* ExtractRule {name: d, patterns: ["(\\d)"], source: exit_code, cascade: true}
CodeRule == [name |-> "d", patterns |-> <<"(\\d)">>, source |-> "exit_code",
             cascade |-> TRUE]

\* ExtractRule {name: d, patterns: ["version (\\d+)", "build (\\d+)"]}
VersionRule == [name |-> "d", patterns |-> <<"version (\\d+)", "build (\\d+)">>,
                source |-> "stdout", cascade |-> FALSE]

\* ExtractRule {name: d, patterns: ["v=\\d+", "v=(\\d+)"]}: the first pattern
\* has no capture group.
PlainFirstRule == [name |-> "d", patterns |-> <<"v=\\d+", "v=(\\d+)">>,
                   source |-> "stdout", cascade |-> FALSE]

\* ExtractRule {name: d, patterns: ["v=(\\d+)", "("]}: the second pattern does
\* not compile.
BadFallbackRule == [name |-> "d", patterns |-> <<"v=(\\d+)", InvalidPattern>>,
                    source |-> "stdout", cascade |-> FALSE]

\* ExtractRule {name: d, patterns: ["(\\d)"], source: stdin}: the source is
\* none of stdout, stderr, exit_code.
StdinRule == [name |-> "d", patterns |-> <<"(\\d)">>, source |-> "stdin",
              cascade |-> FALSE]

\* The rule lists extract_variables is called with.
RuleLists ==
    { <<TokRule>>, <<DigitRule>>, <<FullRule>>, <<WholeRule>>, <<MissRule>>,
      <<BadRule>>, <<CodeRule>>, <<DigitRule, TokRule>>,
      <<VersionRule>>, <<PlainFirstRule>>, <<BadFallbackRule>>,
      <<MissRule, VersionRule>>, <<TokRule, BadFallbackRule>>,
      <<TokRule, StdinRule>> }

\* The execution results extract_variables is called with.
ExtractedResults ==
    { ExecutionResult(TRUE, "token: abc123=xyz", "", "", 0, None),
      ExecutionResult(TRUE, "v=42", "", "", 0, None),
      ExecutionResult(FALSE, "", "v=7", "", 1, None),
      ExecutionResult(TRUE, "build 7\n", "", "", 0, None),
      ExecutionResult(TRUE, "version 3 build 7\n", "", "", 0, None) }

\* VariableManager::new over one of the stores; nothing called yet.
VarsInit ==
    /\ yaml_content = NoConfig
    /\ config = NoConfig
    /\ overrides = None
    /\ executor = "none"
    /\ variable_manager = NoVars
    /\ pc = "idle"
    /\ all_frame = NoAllFrame
    /\ pipe_frame = NoPipeFrame
    /\ step_frame = NoStepFrame
    /\ tasks = <<>>
    /\ events = <<>>
    /\ ret = NoRet
    /\ calls = 0
    /\ vm \in Stores
    /\ vm_call = NoCall
    /\ vm_ret = NoRet
    /\ transport = NoTransport
    /\ readers = NoReaders
    /\ callback = NoDelivery
    /\ template_engine = NoTemplateEngine

\* manager.replace_variables(content), on one of the texts or on what the
\* previous replace_variables call returned.
ReplaceVariables ==
    \E text \in Texts \cup (IF vm_call.op = "replace_variables"
                            THEN {vm_ret.value} ELSE {}) :
    \E result \in replace_variables(vm, text) :
        /\ vm_call' = [NoCall EXCEPT !.op = "replace_variables", !.text = text,
                          !.again = (vm_call.op = "replace_variables"
                                     /\ text = vm_ret.value),
                          !.before = vm]
        /\ vm_ret' = Ok(result)
        /\ UNCHANGED <<template_engine, transport_vars, vm, yaml_content, config, overrides, executor,
                       variable_manager, pc, all_frame, pipe_frame, step_frame,
                       tasks, events, ret, calls>>

\* manager.extract_variables(extract_rules, execution_result)
ExtractVariables ==
    \E extract_rules \in RuleLists, execution_result \in ExtractedResults :
        LET r == extract_variables(vm, extract_rules, execution_result) IN
        /\ vm' = r.variables
        /\ vm_call' = [NoCall EXCEPT !.op = "extract_variables",
                          !.extract_rules = extract_rules,
                          !.execution_result = execution_result,
                          !.before = vm]
        /\ vm_ret' = IF r.ok THEN Ok(<<>>) ELSE Err("extract_variables")
        /\ UNCHANGED <<template_engine, transport_vars, yaml_content, config, overrides, executor,
                       variable_manager, pc, all_frame, pipe_frame, step_frame,
                       tasks, events, ret, calls>>

VarsNext ==
    \/ ReplaceVariables
    \/ ExtractVariables

VarsSpec == VarsInit /\ [][VarsNext]_vars

-----------------------------------------------------------------------------
(* A transport by itself: LocalExecutor (src/src/ssh/local.rs) or            *)
(* SshExecutor (src/src/ssh/mod.rs) runs one script whose output is given,  *)
(* with the reader tasks, the child process and the callback as separate    *)
(* threads of control.                                                      *)

\* The lines a script writes to its stdout and to its stderr.
OutLines == {<<>>, <<"a">>, <<"a", "b">>}
ErrLines == {<<>>, <<"e", "f">>}

\* The exit statuses of a script.
ExitCodes == {0, 1}

Streams == {"stdout", "stderr"}

\* The lines the script writes to a stream.
lines_of(t, s) == IF s = "stdout" THEN t.out ELSE t.err

\* OutputType::Stdout / OutputType::Stderr
output_type_of(s) == IF s = "stdout" THEN "Stdout" ELSE "Stderr"

\* The server_name of the transport's events.
server_name_of(t) == IF t.kind = "local" THEN "localhost" ELSE "s1"

\* The event of a line read from a stream.
line_event(t, s, line) ==
    OutputEvent("output", output_type_of(s), "p", server_name_of(t), "step",
                line, NoVars)

\* Mutant of push_str: the line is put in front of what was accumulated.
push_str_front(content, line) == line \o "\n" \o content

\* content.push_str(&line); content.push('\n'): the line with its newline.
push_str(content, line) == content \o line \o "\n"

\* Mutant of drop_temp_file: the file is kept (NamedTempFile::keep).
drop_temp_file_kept(temp_file) == temp_file

\* drop(temp_file): NamedTempFile removes the file it names.
drop_temp_file(temp_file) == IF temp_file = "exists" THEN "removed" ELSE temp_file

\* A transport is called on a script; nothing has run yet.
TransportInit ==
    /\ yaml_content = NoConfig
    /\ config = NoConfig
    /\ overrides = None
    /\ executor = "none"
    /\ variable_manager = NoVars
    /\ pc = "idle"
    /\ all_frame = NoAllFrame
    /\ pipe_frame = NoPipeFrame
    /\ step_frame = NoStepFrame
    /\ tasks = <<>>
    /\ events = <<>>
    /\ ret = NoRet
    /\ calls = 0
    /\ vm = NoVars
    /\ vm_call = NoCall
    /\ vm_ret = NoRet
    /\ transport \in [kind : {"local", "ssh"}, pc : {"start"},
                      has_callback : BOOLEAN, out : OutLines, err : ErrLines,
                      exit_code : ExitCodes, temp_file : {"none"},
                      child : {"none"}, ret : {NoRet}]
    /\ readers = NoReaders
    /\ callback = NoDelivery
    /\ template_engine = NoTemplateEngine

\* Everything but the transport's own variables stays as it is.
engine_unchanged ==
    UNCHANGED <<yaml_content, config, overrides, executor, variable_manager, pc,
                all_frame, pipe_frame, step_frame, tasks, events, ret, calls,
                vm, vm_call, vm_ret, template_engine>>

\* The local transport returns: temp_file goes out of scope and is dropped.
local_returns(result) ==
    transport' = [transport EXCEPT !.pc = "returned", !.ret = result,
                                   !.temp_file = drop_temp_file(@)]

\* local.rs 67-69: NamedTempFile::new()
LocalCreateTempFile ==
    /\ transport.kind = "local"
    /\ transport.pc = "start"
    /\ \/ local_returns(Err("Failed to create temp file"))
       \/ transport' = [transport EXCEPT !.pc = "write", !.temp_file = "exists"]
    /\ UNCHANGED <<readers, callback>>
    /\ engine_unchanged

\* local.rs 70-88: the script is written to the file and the start is logged.
LocalWrite ==
    /\ transport.kind = "local"
    /\ transport.pc = "write"
    /\ \/ /\ local_returns(Err("Failed to write to temp file"))
          /\ UNCHANGED callback
       \/ /\ transport' = [transport EXCEPT !.pc = "spawn"]
          /\ callback' = [callback EXCEPT !.delivered =
                 emit(@, transport.has_callback,
                      OutputEvent("output", "Log", "p", "localhost", "step",
                                  "local script started", NoVars))]
    /\ UNCHANGED readers
    /\ engine_unchanged

\* local.rs 94-175: bash is spawned on the file and the two reader tasks are
\* spawned on its pipes.
LocalSpawn ==
    /\ transport.kind = "local"
    /\ transport.pc = "spawn"
    /\ \/ /\ local_returns(Err("Failed to spawn local script process"))
          /\ UNCHANGED readers
       \/ /\ transport' = [transport EXCEPT !.pc = "wait", !.child = "running"]
          /\ readers' = [s \in Streams |-> [readers[s] EXCEPT !.state = "reading"]]
    /\ UNCHANGED callback
    /\ engine_unchanged

\* The child process ends by itself.
ChildExits ==
    /\ transport.child = "running"
    /\ transport' = [transport EXCEPT !.child = "exited"]
    /\ UNCHANGED <<readers, callback>>
    /\ engine_unchanged

\* local.rs 129-145 and 156-172: a reader task gets the next line of its
\* stream, accumulates it and calls the callback with it.
ReaderLine(s) ==
    /\ transport.kind = "local"
    /\ readers[s].state = "reading"
    /\ readers[s].pos < Len(lines_of(transport, s))
    /\ LET line == lines_of(transport, s)[readers[s].pos + 1] IN
       /\ readers' = [readers EXCEPT
              ![s].pos = @ + 1,
              ![s].content = push_str(@, line),
              ![s].state = IF transport.has_callback THEN "in_callback"
                           ELSE "reading"]
       /\ callback' = [callback EXCEPT !.delivered =
              emit(@, transport.has_callback, line_event(transport, s, line))]
    /\ UNCHANGED transport
    /\ engine_unchanged

\* local.rs 144 and 171: the callback returns to the reader task.
ReaderCallbackReturns(s) ==
    /\ transport.kind = "local"
    /\ readers[s].state = "in_callback"
    /\ readers' = [readers EXCEPT ![s].state = "reading"]
    /\ UNCHANGED <<transport, callback>>
    /\ engine_unchanged

\* local.rs 129 and 156: next_line() is None once the child has closed the
\* pipe and every line was read; the task returns its content.
ReaderEof(s) ==
    /\ transport.kind = "local"
    /\ readers[s].state = "reading"
    /\ readers[s].pos = Len(lines_of(transport, s))
    /\ transport.child \in {"exited", "killed"}
    /\ readers' = [readers EXCEPT ![s].state = "done"]
    /\ UNCHANGED <<transport, callback>>
    /\ engine_unchanged

\* local.rs 178-196: timeout(child.wait()) is over: the child has exited, or
\* waiting failed, or the timeout expired and the child is killed.
LocalWait ==
    /\ transport.kind = "local"
    /\ transport.pc = "wait"
    /\ IF transport.child = "exited"
       THEN transport' = [transport EXCEPT !.pc = "join"]
       ELSE \/ local_returns(Err("Local script execution failed"))
            \/ transport' = [transport EXCEPT
                   !.pc = "returned", !.child = "killed",
                   !.ret = Err("Local script execution timed out"),
                   !.temp_file = drop_temp_file(@)]
    /\ UNCHANGED <<readers, callback>>
    /\ engine_unchanged

\* local.rs 198-235: both reader tasks are joined, the completion is logged,
\* the file dropped and the result returned.
LocalJoin ==
    /\ transport.kind = "local"
    /\ transport.pc = "join"
    /\ \A s \in Streams : readers[s].state = "done"
    /\ callback' = [callback EXCEPT !.delivered =
           emit(@, transport.has_callback,
                OutputEvent("output", "Log", "p", "localhost", "step",
                            IF transport.exit_code = 0
                            THEN "local script completed: success"
                            ELSE "local script completed: failure", NoVars))]
    /\ local_returns(Ok(ExecutionResult(transport.exit_code = 0,
                            readers["stdout"].content, readers["stderr"].content,
                            "script.sh", transport.exit_code,
                            IF transport.exit_code = 0 THEN None
                            ELSE Some("Script exited with code"))))
    /\ UNCHANGED readers
    /\ engine_unchanged

\* ssh/mod.rs 50-121: connection, handshake, authentication, channel, the
\* script written to the remote shell; then the output handler thread is
\* spawned on the receiving end of the channel.
SshConnect ==
    /\ transport.kind = "ssh"
    /\ transport.pc = "start"
    /\ \/ /\ \E e \in SshFailures :
               transport' = [transport EXCEPT !.pc = "returned", !.ret = Err(e)]
          /\ UNCHANGED <<readers, callback>>
       \/ /\ transport' = [transport EXCEPT !.pc = "stdout"]
          /\ readers' = [readers EXCEPT !["stdout"].state = "reading"]
          /\ callback' = [callback EXCEPT !.handler = "idle"]
    /\ engine_unchanged

\* ssh/mod.rs 133-153 and 160-180: read_line on the stream being read: a
\* line is accumulated and its event sent to the channel; or the stream is at
\* its end and the next one is read; or the read fails.
SshReadLine ==
    /\ transport.kind = "ssh"
    /\ transport.pc \in Streams
    /\ LET s == transport.pc IN
       \/ /\ readers[s].pos < Len(lines_of(transport, s))
          /\ LET line == lines_of(transport, s)[readers[s].pos + 1] IN
             /\ readers' = [readers EXCEPT ![s].pos = @ + 1,
                                           ![s].content = push_str(@, line)]
             /\ callback' = [callback EXCEPT !.queue =
                                Append(@, line_event(transport, s, line))]
          /\ UNCHANGED transport
       \/ /\ readers[s].pos = Len(lines_of(transport, s))
          /\ IF s = "stdout"
             THEN /\ transport' = [transport EXCEPT !.pc = "stderr"]
                  /\ readers' = [readers EXCEPT !["stdout"].state = "done",
                                                !["stderr"].state = "reading"]
             ELSE /\ transport' = [transport EXCEPT !.pc = "join"]
                  /\ readers' = [readers EXCEPT !["stderr"].state = "done"]
          /\ UNCHANGED callback
       \/ /\ transport' = [transport EXCEPT !.pc = "returned",
                              !.ret = Err("read_line failed")]
          /\ UNCHANGED <<readers, callback>>
    /\ engine_unchanged

\* ssh/mod.rs 116-119: the handler thread receives the next event of the
\* channel and calls the callback with it, if there is one.
HandlerRecv ==
    /\ callback.handler = "idle"
    /\ callback.queue # <<>>
    /\ callback' = [callback EXCEPT
           !.queue = Tail(@),
           !.handler = IF transport.has_callback THEN "in_callback" ELSE "idle",
           !.delivered = emit(@, transport.has_callback, Head(callback.queue))]
    /\ UNCHANGED <<transport, readers>>
    /\ engine_unchanged

\* ssh/mod.rs 118: the callback returns to the handler thread.
HandlerCallbackReturns ==
    /\ callback.handler = "in_callback"
    /\ callback' = [callback EXCEPT !.handler = "idle"]
    /\ UNCHANGED <<transport, readers>>
    /\ engine_unchanged

\* ssh/mod.rs 116 and 183: blocking_recv is None once the sender is dropped
\* and the channel is empty; the handler thread ends.
HandlerEnds ==
    /\ callback.handler = "idle"
    /\ callback.queue = <<>>
    /\ transport.kind = "ssh"
    /\ transport.pc \in {"join", "returned"}
    /\ callback' = [callback EXCEPT !.handler = "done"]
    /\ UNCHANGED <<transport, readers>>
    /\ engine_unchanged

\* ssh/mod.rs 183-215: the handler thread is joined, the channel closed and
\* the exit status read; the result is returned.
SshJoin ==
    /\ transport.kind = "ssh"
    /\ transport.pc = "join"
    /\ callback.handler = "done"
    /\ \/ transport' = [transport EXCEPT !.pc = "returned",
              !.ret = Err("Failed to wait for channel close")]
       \/ transport' = [transport EXCEPT !.pc = "returned",
              !.ret = Ok(ExecutionResult(transport.exit_code = 0,
                            readers["stdout"].content, readers["stderr"].content,
                            "script.sh", transport.exit_code, None))]
    /\ UNCHANGED <<readers, callback>>
    /\ engine_unchanged

\* executor/mod.rs 138-159 and 496-522: the transport has returned to the
\* engine with a result, or the SSH transport with an error that becomes a
\* failed result, and the engine emits the step's StepCompleted event; an
\* error of the local transport leaves execute_pipeline before that.
StepCompleted ==
    /\ transport.kind # "none"
    /\ transport.pc = "returned"
    /\ transport.has_callback
    /\ transport.kind = "local" => transport.ret.kind = "ok"
    /\ \A i \in DOMAIN callback.delivered :
          callback.delivered[i].output_type # "StepCompleted"
    /\ callback' = [callback EXCEPT !.delivered =
           Append(@, OutputEvent("output", "StepCompleted", "p", "system",
                                 "step",
                                 IF transport.ret.kind = "ok"
                                    /\ transport.ret.value.success
                                 THEN "step completed: success"
                                 ELSE "step completed: failure", NoVars))]
    /\ UNCHANGED <<transport, readers>>
    /\ engine_unchanged

TransportNext ==
    \/ LocalCreateTempFile
    \/ LocalWrite
    \/ LocalSpawn
    \/ ChildExits
    \/ \E s \in Streams : ReaderLine(s)
    \/ \E s \in Streams : ReaderCallbackReturns(s)
    \/ \E s \in Streams : ReaderEof(s)
    \/ LocalWait
    \/ LocalJoin
    \/ SshConnect
    \/ SshReadLine
    \/ HandlerRecv
    \/ HandlerCallbackReturns
    \/ HandlerEnds
    \/ SshJoin
    \/ StepCompleted

TransportSpec == TransportInit /\ [][TransportNext]_vars

-----------------------------------------------------------------------------
(* The template engine: src/src/template.rs.  A template is a sequence of    *)
(* tokens as the texts above: a placeholder, a for tag, an endfor tag, an    *)
(* include tag, a newline "\n", a run of blanks, or any other text.  A       *)
(* string value is one token and holds no newline.                          *)

\* serde_json::Value, the type of a template variable.
String(s) == [type |-> "String", s |-> s]

Number(n) == [type |-> "Number", n |-> n]

Array(items) == [type |-> "Array", items |-> items]

Object(map) == [type |-> "Object", map |-> map]

\* The top-level variable names of the templates of this model.
TemplateNames == {"a", "b", "c", "x", "y", "item", "csv", "items", "user"}

\* The variable paths var_regex finds in the templates of this model.
TemplatePaths == TemplateNames \cup {"a.name", "user.name"}

\* The strings set_variable is called with for a and b.
TemplateValues == {"x", "{{ a }}", "{{ b }}"}

\* The (key, value) pairs set_variable is called with.
TemplateBindings ==
    {<<key, String(s)>> : key \in {"a", "b"}, s \in TemplateValues}
    \cup {<<"csv", String("a,b,c")>>, <<"csv", String(",b,,c")>>,
          <<"items", Array(<<String("apple"), String("banana")>>)>>,
          <<"user", Object([name |-> String("Alice")])>>}

\* The path set_template_dir is called with.
TemplateDir == "templates"

\* The files of that directory.
TemplateFiles ==
    [name \in {"head.txt", "page.txt", "self.txt"} |->
        CASE name = "head.txt" -> <<"{{ a }}">>
          [] name = "page.txt" -> <<"{% include \"head.txt\" %}", "!">>
          [] name = "self.txt" -> <<"{% include \"self.txt\" %}">>]

\* The file names the include tags of this model carry.
IncludeNames == DOMAIN TemplateFiles \cup {"gone.txt"}

\* The text include_regex matches for a template name.
include_token(template_name) == "{% include \"" \o template_name \o "\" %}"

\* The text for_regex matches up to the loop content.
for_token(item_name, array_name, split_delimiter) ==
    "{% for " \o item_name \o " in " \o array_name
        \o (IF split_delimiter = None THEN ""
            ELSE " split \"" \o unwrap(split_delimiter) \o "\"")
        \o " %}"

\* The end of the text for_regex matches.
Endfor == "{% endfor %}"

\* Captures 1 to 3 of for_regex for the for tags of this model.
ForTags ==
    [item_name : {"x", "y", "item"}, array_name : {"csv", "items", "c"},
     split_delimiter : {None, Some(",")}]

\* The templates render_string is called on.
Templates ==
    { <<"{{ a }}">>,
      <<"{{ a }}", "-", "{{ b }}">>,
      <<"{{ b }}", "-", "{{ a }}", "-", "{{ b }}">>,
      <<"plain">>,
      <<"{{ c }}">>,
      <<"{{ a.name }}">>,
      <<"{{ user.name }}">>,
      <<for_token("x", "csv", Some(",")), "-", "{{ x }}", Endfor>>,
      <<"\n", for_token("item", "items", None), "\n", "        ", "- ",
        "{{ item }}", "\n", Endfor>>,
      <<"[", for_token("x", "csv", Some(",")), "\n", "  ", "{{ x }}", "\n",
        "  ", "\n", Endfor, "]">>,
      <<for_token("x", "items", None), for_token("y", "items", None),
        "{{ x }}", "{{ y }}", ";", Endfor, Endfor>>,
      <<for_token("x", "csv", None), "{{ x }}", Endfor>>,
      <<for_token("x", "items", Some(",")), "{{ x }}", Endfor>>,
      <<for_token("x", "c", None), "{{ x }}", Endfor>>,
      <<include_token("head.txt"), "-">>,
      <<include_token("page.txt")>>,
      <<include_token("self.txt")>>,
      <<include_token("gone.txt")>> }

\* var_regex matches the token: it is a placeholder of a variable path.
is_placeholder(token) == \E n \in TemplatePaths : token = Placeholder(n)

\* captures.get(1): the variable path of a placeholder token.
variable_path(token) == CHOOSE n \in TemplatePaths : token = Placeholder(n)

\* var_regex.captures(&result): the position of the leftmost match, 0 if none.
first_match(text) ==
    IF \E i \in DOMAIN text : is_placeholder(text[i])
    THEN CHOOSE i \in DOMAIN text :
            /\ is_placeholder(text[i])
            /\ \A j \in DOMAIN text : is_placeholder(text[j]) => i <= j
    ELSE 0

\* include_regex matches the token.
is_include(token) == \E n \in IncludeNames : token = include_token(n)

\* captures.get(1) of include_regex: the template name.
template_name_of(token) == CHOOSE n \in IncludeNames : token = include_token(n)

\* include_regex.captures(&result): the position of the leftmost match.
first_include(text) ==
    IF \E i \in DOMAIN text : is_include(text[i])
    THEN CHOOSE i \in DOMAIN text :
            /\ is_include(text[i])
            /\ \A j \in DOMAIN text : is_include(text[j]) => i <= j
    ELSE 0

\* The token is the head of a for block.
is_for(token) ==
    \E t \in ForTags :
        token = for_token(t.item_name, t.array_name, t.split_delimiter)

\* Captures 1 to 3 of for_regex on a for tag.
for_captures(token) ==
    CHOOSE t \in ForTags :
        token = for_token(t.item_name, t.array_name, t.split_delimiter)

\* for_regex.captures(&result): the leftmost for tag that an endfor follows,
\* with the first endfor after it (the content is matched lazily); <<>> if
\* there is none.
for_match(text) ==
    LET starts == {i \in DOMAIN text :
                      /\ is_for(text[i])
                      /\ \E j \in DOMAIN text : j > i /\ text[j] = Endfor}
    IN  IF starts = {} THEN <<>>
        ELSE LET i == CHOOSE s \in starts : \A t \in starts : s <= t
                 j == CHOOSE e \in DOMAIN text :
                         /\ e > i /\ text[e] = Endfor
                         /\ \A k \in DOMAIN text :
                               (k > i /\ text[k] = Endfor) => e <= k
             IN  <<i, j>>

\* str::replace(from, to) on tokenised texts: every occurrence, left to right.
RECURSIVE replace(_, _, _)
replace(text, from, to) ==
    IF Len(text) < Len(from) THEN text
    ELSE IF SubSeq(text, 1, Len(from)) = from
    THEN to \o replace(SubSeq(text, Len(from) + 1, Len(text)), from, to)
    ELSE <<Head(text)>> \o replace(Tail(text), from, to)

\* str::split(delimiter) on the strings of this model.
split(s, delimiter) ==
    CASE s = "a,b,c" /\ delimiter = "," -> <<"a", "b", "c">>
      [] s = ",b,,c" /\ delimiter = "," -> <<"", "b", "", "c">>
      [] OTHER -> <<s>>

\* Lines 188-190: the parts of a split string as values.
split_items(s, delimiter) ==
    [i \in DOMAIN split(s, delimiter) |-> String(split(s, delimiter)[i])]

\* serde_json::Value::to_string on the values of this model.
value_to_string(value) ==
    CASE value.type = "Number" -> ToString(value.n)
      [] value.type = "String" -> "\"" \o value.s \o "\""
      [] value.type = "Array" -> "[\"apple\",\"banana\"]"
      [] OTHER -> "{\"name\":\"Alice\"}"

\* Lines 268-271: a string is inserted as it is, another value as JSON.
value_str(value) ==
    IF value.type = "String" THEN value.s ELSE value_to_string(value)

\* path.split('.') on the paths of this model.
parts(path) ==
    CASE path = "a.name" -> <<"a", "name">>
      [] path = "user.name" -> <<"user", "name">>
      [] OTHER -> <<path>>

\* Lines 296-313: the descent through the properties of a value.
RECURSIVE descend(_, _)
descend(value, rest) ==
    IF rest = <<>> THEN Ok(value)
    ELSE IF value.type # "Object"
    THEN Err("Cannot access property on non-object value")
    ELSE IF Head(rest) \notin DOMAIN value.map
    THEN Err("Property not found in variable")
    ELSE descend(value.map[Head(rest)], Tail(rest))

\* Mutant of get_variable_value: an unknown variable is the empty string.
get_variable_value_lenient(variables, path) ==
    IF parts(path)[1] \notin DOMAIN variables THEN Ok(String(""))
    ELSE descend(variables[parts(path)[1]], Tail(parts(path)))

\* Lines 280-314: get_variable_value
get_variable_value(variables, path) ==
    IF parts(path)[1] \notin DOMAIN variables THEN Err("Variable not found")
    ELSE descend(variables[parts(path)[1]], Tail(parts(path)))

\* Lines 263-276: one turn of the while loop of process_variables: the
\* leftmost match is looked up and every occurrence of it replaced; with no
\* match left the result is returned, with a failing lookup its error.
process_variables(variables, result) ==
    LET m == first_match(result)
        value == get_variable_value(variables, variable_path(result[m]))
    IN  IF m = 0 THEN [turn |-> "return", ret |-> Ok(result)]
        ELSE IF value.kind = "err" THEN [turn |-> "return", ret |-> value]
        ELSE [turn |-> "again",
              result |-> replace(result, <<result[m]>>,
                                 <<value_str(value.value)>>)]

\* Lines 178-206: the items of a for block, or the error.
loop_items(variables, tag) ==
    IF tag.array_name \notin DOMAIN variables
    THEN Err("Array not found in variables")
    ELSE LET array_value == variables[tag.array_name]
         IN  IF tag.split_delimiter # None
             THEN IF array_value.type = "String"
                  THEN Ok(split_items(array_value.s,
                                      unwrap(tag.split_delimiter)))
                  ELSE Err("Cannot split non-string variable")
             ELSE IF array_value.type = "Array" THEN Ok(array_value.items)
                  ELSE Err("is not an array")

\* The run of blanks a line may consist of.
Blanks == {"", " ", "  ", "        "}

\* line.trim().is_empty()
is_blank(line) == \A i \in DOMAIN line : line[i] \in Blanks

\* String::is_empty
is_empty(text) == \A i \in DOMAIN text : text[i] = ""

\* str::lines: the text between the newlines, without a last empty line.
RECURSIVE lines(_)
lines(text) ==
    IF text = <<>> THEN <<>>
    ELSE IF \E n \in DOMAIN text : text[n] = "\n"
    THEN LET n == CHOOSE k \in DOMAIN text :
                     /\ text[k] = "\n"
                     /\ \A l \in DOMAIN text : text[l] = "\n" => k <= l
         IN  <<SubSeq(text, 1, n - 1)>>
                 \o lines(SubSeq(text, n + 1, Len(text)))
    ELSE <<text>>

\* Mutant of nonblank_lines: the blank lines stay.
nonblank_lines_kept(ls) == ls

\* Lines 232-235: the filter that drops the lines of blanks only.
RECURSIVE nonblank_lines(_)
nonblank_lines(ls) ==
    IF ls = <<>> THEN <<>>
    ELSE IF is_blank(Head(ls)) THEN nonblank_lines(Tail(ls))
    ELSE <<Head(ls)>> \o nonblank_lines(Tail(ls))

\* lines.join("\n")
RECURSIVE join(_)
join(ls) ==
    IF ls = <<>> THEN <<>>
    ELSE IF Len(ls) = 1 THEN Head(ls)
    ELSE Head(ls) \o <<"\n">> \o join(Tail(ls))

\* Mutant of push_rendered: no newline between the items.
push_rendered_unseparated(loop_result, rendered, preserve_loop_newlines) ==
    IF preserve_loop_newlines THEN loop_result \o rendered
    ELSE loop_result \o join(nonblank_lines(lines(rendered)))

\* Lines 229-250: what the rendered content of one item adds to loop_result.
push_rendered(loop_result, rendered, preserve_loop_newlines) ==
    IF preserve_loop_newlines THEN loop_result \o rendered
    ELSE IF nonblank_lines(lines(rendered)) # <<>>
    THEN (IF is_empty(loop_result) THEN loop_result
          ELSE loop_result \o <<"\n">>)
             \o join(nonblank_lines(lines(rendered)))
    ELSE loop_result

\* A TemplateEngine is created; nothing else runs.
TemplateInit ==
    /\ yaml_content = NoConfig
    /\ config = NoConfig
    /\ overrides = None
    /\ executor = "none"
    /\ variable_manager = NoVars
    /\ pc = "idle"
    /\ all_frame = NoAllFrame
    /\ pipe_frame = NoPipeFrame
    /\ step_frame = NoStepFrame
    /\ tasks = <<>>
    /\ events = <<>>
    /\ ret = NoRet
    /\ calls = 0
    /\ vm = NoVars
    /\ vm_call = NoCall
    /\ vm_ret = NoRet
    /\ transport = NoTransport
    /\ readers = NoReaders
    /\ callback = NoDelivery
    /\ template_engine = NoTemplateEngine

\* Everything but the template engine stays as it is.
template_unchanged ==
    UNCHANGED <<yaml_content, config, overrides, executor, variable_manager, pc,
                all_frame, pipe_frame, step_frame, tasks, events, ret, calls,
                vm, vm_call, vm_ret, transport, readers, callback>>

\* The engine between two calls of render_string: the last call is forgotten.
between_calls(engine) ==
    [engine EXCEPT !.template = <<>>, !.result = <<>>, !.ret = NoRet,
                   !.loop = NoLoop, !.turn = 0]

\* Lines 96-104: engine.set_variable(key, value)
TemplateSetVariable ==
    /\ template_engine.pc = "idle"
    /\ \E binding \in TemplateBindings :
          template_engine' = [between_calls(template_engine) EXCEPT
              !.variables = set_variable(@, binding[1], binding[2])]
    /\ template_unchanged

\* Lines 90-94: engine.set_template_dir(path)
SetTemplateDir ==
    /\ template_engine.pc = "idle"
    /\ template_engine' = [between_calls(template_engine) EXCEPT
          !.template_dir = Some(TemplateDir)]
    /\ template_unchanged

\* Lines 114-118: engine.set_preserve_loop_newlines(preserve)
SetPreserveLoopNewlines ==
    /\ template_engine.pc = "idle"
    /\ \E preserve \in BOOLEAN :
          template_engine' = [between_calls(template_engine) EXCEPT
              !.preserve_loop_newlines = preserve]
    /\ template_unchanged

\* Lines 121-125: render_string is called and process_includes starts on the
\* template.
RenderString ==
    /\ template_engine.pc = "idle"
    /\ \E template \in Templates :
          template_engine' = [template_engine EXCEPT
              !.pc = "process_includes", !.template = template,
              !.result = template, !.ret = NoRet, !.loop = NoLoop,
              !.turn = 0]
    /\ template_unchanged

\* Lines 146-164: one turn of the while loop of process_includes: the
\* leftmost include tag is replaced, everywhere, by the content of its file;
\* with no tag left process_for_loops starts on the result (line 128).
ProcessIncludes ==
    /\ template_engine.pc = "process_includes"
    /\ LET result == template_engine.result
           m == first_include(result)
       IN  IF m = 0
           THEN template_engine' = [template_engine EXCEPT
                    !.pc = "process_for_loops", !.turn = 0]
           ELSE IF template_engine.template_dir = None
           THEN template_engine' = [template_engine EXCEPT
                    !.pc = "idle", !.turn = 0,
                    !.ret = Err("Template directory not set for include")]
           ELSE IF template_name_of(result[m]) \notin DOMAIN TemplateFiles
           THEN template_engine' = [template_engine EXCEPT
                    !.pc = "idle", !.turn = 0,
                    !.ret = Err("Failed to include template")]
           ELSE template_engine' = [template_engine EXCEPT
                    !.turn = 1 - @,
                    !.result = replace(result, <<result[m]>>,
                                   TemplateFiles[template_name_of(result[m])])]
    /\ template_unchanged

\* Lines 171-208: one turn of the while loop of process_for_loops up to the
\* loop over the items: the leftmost for block is matched and its items are
\* taken from the variable; with no block left process_variables starts on
\* the result (line 131).
ProcessForLoops ==
    /\ template_engine.pc = "process_for_loops"
    /\ LET result == template_engine.result
           m == for_match(result)
       IN  IF m = <<>>
           THEN template_engine' = [template_engine EXCEPT
                    !.pc = "process_variables"]
           ELSE LET tag == for_captures(result[m[1]])
                    items == loop_items(template_engine.variables, tag)
                IN  IF items.kind = "err"
                    THEN template_engine' = [template_engine EXCEPT
                             !.pc = "idle", !.ret = items]
                    ELSE template_engine' = [template_engine EXCEPT
                             !.pc = "for_item",
                             !.loop = [full_match |-> SubSeq(result, m[1], m[2]),
                                       item_name |-> tag.item_name,
                                       loop_content |->
                                           SubSeq(result, m[1] + 1, m[2] - 1),
                                       items |-> items.value,
                                       loop_result |-> <<>>,
                                       rendered |-> <<>>]]
    /\ template_unchanged

\* Lines 210-227 and 253: the next item is bound and process_variables starts
\* on the loop content; after the last item the block is replaced by the loop
\* result and the while loop of process_for_loops goes on.
ForItem ==
    /\ template_engine.pc = "for_item"
    /\ IF template_engine.loop.items = <<>>
       THEN template_engine' = [template_engine EXCEPT
                !.pc = "process_for_loops",
                !.result = replace(@, template_engine.loop.full_match,
                                   template_engine.loop.loop_result),
                !.loop = NoLoop]
       ELSE template_engine' = [template_engine EXCEPT
                !.pc = "item_variables",
                !.loop.rendered = template_engine.loop.loop_content]
    /\ template_unchanged

\* Lines 211-212: the variables of the engine an item is rendered with.
temp_vars(engine) ==
    set_variable(engine.variables, engine.loop.item_name,
                 Head(engine.loop.items))

\* Lines 227-250: one turn of process_variables on the content of the item;
\* when it returns the rendered content is added to the loop result, or its
\* error ends render_string.
ItemVariables ==
    /\ template_engine.pc = "item_variables"
    /\ LET turn == process_variables(temp_vars(template_engine),
                                     template_engine.loop.rendered)
       IN  IF turn.turn = "again"
           THEN template_engine' = [template_engine EXCEPT
                    !.turn = 1 - @, !.loop.rendered = turn.result]
           ELSE IF turn.ret.kind = "err"
           THEN template_engine' = [template_engine EXCEPT
                    !.pc = "idle", !.turn = 0, !.ret = turn.ret]
           ELSE template_engine' = [template_engine EXCEPT
                    !.pc = "for_item", !.turn = 0,
                    !.loop.items = Tail(@),
                    !.loop.rendered = <<>>,
                    !.loop.loop_result =
                        push_rendered(@, turn.ret.value,
                            template_engine.preserve_loop_newlines)]
    /\ template_unchanged

\* Lines 131-133: one turn of process_variables on the result of the loops;
\* what it returns render_string returns.
ProcessVariables ==
    /\ template_engine.pc = "process_variables"
    /\ LET turn == process_variables(template_engine.variables,
                                     template_engine.result)
       IN  IF turn.turn = "again"
           THEN template_engine' = [template_engine EXCEPT
                    !.turn = 1 - @, !.result = turn.result]
           ELSE template_engine' = [template_engine EXCEPT
                    !.pc = "idle", !.turn = 0, !.ret = turn.ret]
    /\ template_unchanged

TemplateNext ==
    \/ TemplateSetVariable
    \/ SetTemplateDir
    \/ SetPreserveLoopNewlines
    \/ RenderString
    \/ ProcessIncludes
    \/ ProcessForLoops
    \/ ForItem
    \/ ItemVariables
    \/ ProcessVariables

TemplateSpec == TemplateInit /\ [][TemplateNext]_vars

-----------------------------------------------------------------------------
(* Vocabulary of the properties *)

\* The server names a run of the step reports: its servers, or localhost.
reported_servers(step) ==
    IF step.servers = <<>> THEN <<"localhost">> ELSE step.servers

\* (step name, server name) of each result a run of the step produces.
StepShape(step) ==
    [i \in DOMAIN reported_servers(step) |-> <<step.name, reported_servers(step)[i]>>]

\* The same for the first k steps, in order.
RECURSIVE PrefixShape(_, _)
PrefixShape(steps, k) ==
    IF k = 0 THEN <<>> ELSE PrefixShape(steps, k - 1) \o StepShape(steps[k])

Shape(results) ==
    [i \in DOMAIN results |-> <<results[i].step_name, results[i].server_name>>]

\* The results of step j among results shaped as a prefix of steps.
ResultsOfStep(results, steps, j) ==
    SubSeq(results, Len(PrefixShape(steps, j - 1)) + 1,
           Len(PrefixShape(steps, j)))

HasFailure(results) ==
    \E i \in DOMAIN results : ~results[i].execution_result.success

StepStartedCount(evs) ==
    Cardinality({i \in DOMAIN evs : evs[i].output_type = "StepStarted"})

\* The pipeline run whose locals pipe_frame holds has returned a result.
PipelineReturned == pipe_frame.returned.kind = "ok"

-----------------------------------------------------------------------------
(* C1 *)

\* From a state in which a step of the pipeline has a failed result, no
\* step is started: no task is spawned and no StepStarted event is emitted.
C1_NoStepAfterFailure ==
    HasFailure(pipe_frame.all_step_results) =>
        /\ \A i \in DOMAIN tasks' : tasks'[i].state # "spawned"
        /\ StepStartedCount(events') <= StepStartedCount(events)

\* A returned result with a failure holds the results of the steps up to
\* and including the failed one, every server of the failed step included.
C1_ResultsUpToFailedStep ==
    (PipelineReturned /\ HasFailure(pipe_frame.returned.value.step_results)) =>
        LET steps == pipe_frame.pipeline.steps
            step_results == pipe_frame.returned.value.step_results
        IN  \E k \in 1..Len(steps) :
               /\ Shape(step_results) = PrefixShape(steps, k)
               /\ HasFailure(ResultsOfStep(step_results, steps, k))
               /\ \A j \in 1..(k - 1) :
                     ~HasFailure(ResultsOfStep(step_results, steps, j))

\* C1: failure-stop. Once a step has a server result with success=false, no
\* later step of the pipeline is started (no StepStarted event, no transport
\* invocation), and the returned step_results are those of the steps up to
\* and including the failed one, all servers of the failed step included.
C1_FailureStop ==
    [][C1_NoStepAfterFailure /\ C1_ResultsUpToFailedStep']_vars

\* Scenario 5: three steps, the second on two servers of which one fails.
C1_Witness ==
    /\ PipelineReturned
    /\ pipe_frame.pipeline.name = "full"
    /\ Len(pipe_frame.returned.value.step_results) = 3
    /\ ~pipe_frame.returned.value.step_results[2].execution_result.success
    /\ pipe_frame.returned.value.step_results[3].execution_result.success

-----------------------------------------------------------------------------
(* C2 *)

\* The engine's store when the fan-out began, plus the two names.
C2_Snapshot ==
    set_variable(set_variable(step_frame.clone_variable_manager,
                              "pipeline_name", step_frame.pipeline_name),
                 "step_name", step_frame.step.name)

\* C2: fan-out isolation. While the server tasks of a step run, the
\* engine's store is the one the fan-out began with; every task works on its
\* own copy of that store plus pipeline_name and step_name: the copy it is
\* given, the script content it substitutes and the events it emits are
\* those of that snapshot, whatever a peer has extracted in the meantime.
C2_FanOutIsolation ==
    pc = "join" =>
        /\ variable_manager = step_frame.clone_variable_manager
        /\ \A i \in DOMAIN tasks :
              /\ tasks[i].state \in {"spawned", "running"} =>
                    tasks[i].variable_manager = C2_Snapshot
              /\ tasks[i].script_content # <<>> =>
                    tasks[i].script_content
                        \in replace_variables(C2_Snapshot, ScriptContent)
              /\ \A e \in DOMAIN tasks[i].events :
                    tasks[i].events[e].variables = C2_Snapshot

\* One server has finished and extracted ver into its copy while its peer
\* is still running; the engine's store has no ver.
C2_Witness ==
    /\ pc = "join"
    /\ Len(tasks) = 2
    /\ tasks[1].state = "done"
    /\ "ver" \in DOMAIN tasks[1].variable_manager
    /\ tasks[2].state = "running"
    /\ "ver" \notin DOMAIN variable_manager

-----------------------------------------------------------------------------
(* C3 *)

\* execute_step has returned its results.
StepReturned == step_frame.returned.kind = "ok"

\* The claim as stated: every server name of step.servers appears exactly
\* once among the results ("localhost" once if there are no servers), and
\* nothing else appears.
C3_OncePerServerName ==
    StepReturned =>
        LET results == step_frame.returned.value
            names == Range(reported_servers(step_frame.step_with_variables))
        IN  /\ \A n \in names :
                  Cardinality({i \in DOMAIN results :
                                  results[i].server_name = n}) = 1
            /\ \A i \in DOMAIN results : results[i].server_name \in names

\* C3: a step run that returns results has one StepExecutionResult per
\* entry of step.servers, in the order of the list (a single "localhost"
\* result if the list is empty), each carrying the step's name.
C3_OnePerServerEntry ==
    StepReturned =>
        LET results == step_frame.returned.value
            step == step_frame.step_with_variables
        IN  /\ [i \in DOMAIN results |-> results[i].server_name]
                  = reported_servers(step)
            /\ \A i \in DOMAIN results : results[i].step_name = step.name

\* A step listing one server twice has returned.
C3_Witness ==
    /\ StepReturned
    /\ step_frame.step_with_variables.servers = <<"s2", "s2">>
    /\ Len(step_frame.returned.value) = 2

-----------------------------------------------------------------------------
(* C4 *)

\* C4: the overall_success of a returned pipeline result is true exactly
\* when every step of the pipeline was executed and every server result
\* succeeded; the results cover a prefix of the steps, and a step is
\* missing only after a step with a failed result.
C4_OverallSuccess ==
    PipelineReturned =>
        LET result == pipe_frame.returned.value
            steps == pipe_frame.pipeline.steps
            executed_all == Shape(result.step_results)
                               = PrefixShape(steps, Len(steps))
        IN  /\ result.overall_success
                  <=> (executed_all /\ ~HasFailure(result.step_results))
            /\ \E k \in 1..Len(steps) :
                  /\ Shape(result.step_results) = PrefixShape(steps, k)
                  /\ k < Len(steps) =>
                        HasFailure(ResultsOfStep(result.step_results, steps, k))

\* A three-step pipeline has run to the end with success.
C4_Witness ==
    /\ PipelineReturned
    /\ Len(pipe_frame.pipeline.steps) = 3
    /\ pipe_frame.returned.value.overall_success

-----------------------------------------------------------------------------
(* C5 *)

\* execute_all has returned its report.
AllReturned ==
    /\ pc = "idle"
    /\ ret.kind = "ok"
    /\ all_frame.pipeline_names # <<>>

\* C5: execute_all runs the pipelines in configuration order: the i-th
\* entry of the report is a result of running the i-th pipeline of the
\* configuration; every entry but the last succeeded, and pipelines are
\* missing only after a failed one.
C5_ConfigurationOrder ==
    AllReturned =>
        LET results == ret.value.pipeline_results
            pipelines == config.pipelines
        IN  /\ Len(results) <= Len(pipelines)
            /\ \A i \in DOMAIN results :
                  /\ results[i].pipeline_name = pipelines[i].name
                  /\ \E k \in 1..Len(pipelines[i].steps) :
                        Shape(results[i].step_results)
                           = PrefixShape(pipelines[i].steps, k)
                  /\ i < Len(results) => results[i].overall_success
            /\ Len(results) < Len(pipelines) =>
                  ~results[Len(results)].overall_success

-----------------------------------------------------------------------------
(* C6 *)

\* C6: the report's success is true exactly when every pipeline of the
\* configuration ran and succeeded.
C6_ReportSuccess ==
    AllReturned =>
        LET results == ret.value.pipeline_results IN
        ret.value.success
            <=> /\ Len(results) = Len(config.pipelines)
                /\ \A i \in DOMAIN results : results[i].overall_success

-----------------------------------------------------------------------------
(* Vocabulary of the variable-flow properties *)

\* The variables of a step as a map (empty if it has none).
StepVariables(step) ==
    IF is_some(step.variables) THEN unwrap(step.variables) ELSE NoVars

\* What the extract rules of a step commit, given the step's results in
\* server order: every result's extraction, a later server's value winning.
RECURSIVE CommittedBy(_, _)
CommittedBy(step, results) ==
    IF results = <<>> \/ ~is_some(step.extract) THEN NoVars
    ELSE LET e == extract_variables(NoVars, unwrap(step.extract),
                                    Head(results).execution_result)
         IN  extend(IF e.ok THEN e.variables ELSE NoVars,
                    CommittedBy(step, Tail(results)))

\* The last value written to key k by steps 1..j, of which steps 1..done
\* have committed their extraction: Some(value), or None if none wrote k.
RECURSIVE LastWrite(_, _, _, _, _)
LastWrite(k, steps, results, j, done) ==
    IF j = 0 THEN None
    ELSE LET committed == IF j <= done
                          THEN CommittedBy(steps[j],
                                           ResultsOfStep(results, steps, j))
                          ELSE NoVars
         IN  IF k \in DOMAIN committed THEN Some(committed[k])
             ELSE IF k \in DOMAIN StepVariables(steps[j])
             THEN Some(StepVariables(steps[j])[k])
             ELSE LastWrite(k, steps, results, j - 1, done)

\* Wherever text has the placeholder of k, substituted has value.
Embeds(text, substituted, k, value) ==
    /\ DOMAIN substituted = DOMAIN text
    /\ \A i \in DOMAIN text : text[i] = Placeholder(k) => substituted[i] = value

\* The events handed to the callbacks by the engine in this step.
NewEvents ==
    IF calls' # calls THEN events'
    ELSE SubSeq(events', Len(events) + 1, Len(events'))

\* The events a server task has emitted in this step.
NewTaskEvents(i) ==
    IF i \in DOMAIN tasks /\ tasks'[i].events = tasks[i].events THEN <<>>
    ELSE tasks'[i].events

IsStepStart(e) ==
    \/ e.output_type = "StepStarted"
    \/ e.output_type = "Log" /\ e.content = "step started"

-----------------------------------------------------------------------------
(* C7 *)

\* Step B (pipe_frame.i) has been started; value is what key k is expected
\* to hold in B's snapshot: it is there, and B's script path and the script
\* content of B's servers embed it.
C7_SnapshotHas(k, value) ==
    /\ k \in DOMAIN step_frame.clone_variable_manager
    /\ step_frame.clone_variable_manager[k] = value
    /\ Embeds(step_frame.step.script, step_frame.step_with_variables.script,
              k, value)
    /\ \A i \in DOMAIN tasks :
          tasks[i].script_content # <<>> =>
             Embeds(ScriptContent, tasks[i].script_content, k, value)

\* The claim as stated: the value committed by an extract rule of an
\* earlier step A is in the snapshot of every later step B.
C7_CommittedValueFlows ==
    pc = "join" =>
        LET steps == pipe_frame.pipeline.steps
            results == pipe_frame.all_step_results
        IN  \A a \in 1..(pipe_frame.i - 1) :
               LET committed == CommittedBy(steps[a],
                                    ResultsOfStep(results, steps, a))
               IN  \A k \in DOMAIN committed : C7_SnapshotHas(k, committed[k])

\* C7: variables flow forward. A key committed by an extract rule of step A
\* is present in the snapshot substituted into the script path and script
\* content of every later step B of the pipeline, holding the last value
\* written to it before B's substitution: the committed value, unless a
\* later extraction or the step variables of a step after A up to and
\* including B wrote the key again.
C7_LastWrittenValueFlows ==
    pc = "join" =>
        LET steps == pipe_frame.pipeline.steps
            results == pipe_frame.all_step_results
            b == pipe_frame.i
        IN  \A a \in 1..(b - 1) :
               \A k \in DOMAIN CommittedBy(steps[a],
                                   ResultsOfStep(results, steps, a)) :
                  C7_SnapshotHas(k, unwrap(LastWrite(k, steps, results, b,
                                                     b - 1)))

\* Scenario 1: build printed v=42, deploy runs deploy-42.sh whose content
\* has 42 in place of the ver placeholder.
C7_Witness ==
    /\ pc = "join"
    /\ step_frame.step.script = <<"deploy-", "{{ ver }}", ".sh">>
    /\ step_frame.step_with_variables.script = <<"deploy-", "42", ".sh">>
    /\ tasks[1].script_content # <<>>
    /\ tasks[1].script_content[2] = "42"

-----------------------------------------------------------------------------
(* C8 *)

\* C8: variables are monotone. No step of the engine removes a key from
\* its store, and every event emitted afterwards, by the engine or by a
\* server task, has every key of the store in its snapshot.
C8_KeysStay ==
    [][/\ DOMAIN variable_manager \subseteq DOMAIN variable_manager'
       /\ \A i \in DOMAIN NewEvents :
             DOMAIN variable_manager \subseteq DOMAIN NewEvents[i].variables
       /\ \A t \in DOMAIN tasks' :
             \A i \in DOMAIN NewTaskEvents(t) :
                DOMAIN variable_manager
                   \subseteq DOMAIN NewTaskEvents(t)[i].variables]_vars

\* The first step of a second call starts with the ver an earlier call
\* extracted, and the step's events show it.
C8_Witness ==
    /\ calls = 2
    /\ pc = "join"
    /\ pipe_frame.i = 1
    /\ "ver" \in DOMAIN variable_manager
    /\ \E i \in DOMAIN events :
          /\ events[i].output_type = "StepStarted"
          /\ "ver" \in DOMAIN events[i].variables

-----------------------------------------------------------------------------
(* C9 *)

\* How many steps of the pipeline have been started.
StartedSteps ==
    IF pc = "join" \/ pipe_frame.returned.kind = "err" THEN pipe_frame.i
    ELSE IF pc = "pipe_loop" THEN pipe_frame.i - 1
    ELSE IF PipelineReturned
    THEN CHOOSE k \in 0..Len(pipe_frame.pipeline.steps) :
            Shape(pipe_frame.all_step_results)
               = PrefixShape(pipe_frame.pipeline.steps, k)
    ELSE 0

\* How many of them have returned results (their extraction is committed).
CompletedSteps ==
    IF pc = "join" \/ pipe_frame.returned.kind = "err"
    THEN IF pipe_frame.i = 0 THEN 0 ELSE pipe_frame.i - 1
    ELSE StartedSteps

\* C9: step-local variables persist. Every key of the variables of a
\* started step is in the engine's store with the last value written to
\* it: the step's value (whatever the store held for the key before),
\* unless a later step's variables or a later extraction wrote the key
\* again; it is neither restored nor removed when the step or the pipeline
\* ends.
C9_StepVariablesPersist ==
    LET steps == pipe_frame.pipeline.steps IN
    \A j \in 1..StartedSteps :
       \A k \in DOMAIN StepVariables(steps[j]) :
          /\ k \in DOMAIN variable_manager
          /\ variable_manager[k]
                = unwrap(LastWrite(k, steps, pipe_frame.all_step_results,
                                   StartedSteps, CompletedSteps))

\* Pipeline "full" has ended; env, "a" or "o" at construction, is still the
\* "b" its first step set.
C9_Witness ==
    /\ pc = "idle"
    /\ PipelineReturned
    /\ pipe_frame.pipeline.name = "full"
    /\ Len(pipe_frame.all_step_results) = 4
    /\ variable_manager["env"] = "b"

-----------------------------------------------------------------------------
(* C10 *)

\* A step is about to be started with callbacks to hear of it.
C10_StepStarts ==
    /\ pc = "pipe_loop"
    /\ pipe_frame.i <= Len(pipe_frame.pipeline.steps)
    /\ pipe_frame.cb.output
    /\ pipe_frame.cb.log

\* The claim as stated: the step-start events carry the store as the
\* preceding step left it.
C10_EventsBeforeMerge ==
    [][C10_StepStarts =>
          /\ Len(NewEvents) >= 2
          /\ \A i \in 1..2 : /\ IsStepStart(NewEvents[i])
                             /\ NewEvents[i].variables = variable_manager]_vars

\* C10: at the start of each step a StepStarted event and then a
\* step-start Log are emitted after the step's variables are merged into
\* the store: both carry the store with the step's variables in it.
C10_EventsAfterMerge ==
    [][C10_StepStarts =>
          LET step == pipe_frame.pipeline.steps[pipe_frame.i] IN
          /\ Len(NewEvents) >= 2
          /\ NewEvents[1].output_type = "StepStarted"
          /\ NewEvents[2].output_type = "Log"
          /\ \A i \in 1..2 :
                /\ IsStepStart(NewEvents[i])
                /\ NewEvents[i].step_name = step.name
                /\ NewEvents[i].variables
                      = extend(variable_manager, StepVariables(step))]_vars

\* Step setenv has started: the pipeline-start Log shows the env of the
\* construction, the two step-start events show the step's env.
C10_Witness ==
    /\ pc = "join"
    /\ step_frame.step.name = "setenv"
    /\ Len(events) = 3
    /\ events[1].variables["env"] \in {"a", "o"}
    /\ events[2].output_type = "StepStarted"
    /\ events[2].variables["env"] = "b"
    /\ events[3].output_type = "Log"
    /\ events[3].variables["env"] = "b"

-----------------------------------------------------------------------------
(* C11 *)

\* execute_step returns the results of all servers in this step of the
\* engine, and the caller passed both callbacks.
C11_StepReturns ==
    /\ pc = "join"
    /\ step_frame'.returned.kind = "ok"
    /\ pipe_frame.cb.output
    /\ pipe_frame.cb.log

\* C11: after every step whose servers all returned a result, the engine
\* emits a StepCompleted event and a Log event for that step, before it
\* starts the next step or finishes the pipeline.
C11_StepCompletedAndLog ==
    [][C11_StepReturns =>
          /\ \E i \in DOMAIN NewEvents :
                /\ NewEvents[i].output_type = "StepCompleted"
                /\ NewEvents[i].step_name = step_frame.step.name
          /\ \E i \in DOMAIN NewEvents :
                /\ NewEvents[i].output_type = "Log"
                /\ NewEvents[i].step_name = step_frame.step.name]_vars

-----------------------------------------------------------------------------
(* C12 *)

\* A document with clients and pipelines, every pipeline with steps, every
\* server that a step names a client.
WellFormed(yaml) ==
    /\ yaml.clients # <<>>
    /\ yaml.pipelines # <<>>
    /\ \A p \in DOMAIN yaml.pipelines :
          /\ yaml.pipelines[p].steps # <<>>
          /\ \A s \in DOMAIN yaml.pipelines[p].steps :
                \A server \in Range(yaml.pipelines[p].steps[s].servers) :
                   server \in DOMAIN yaml.clients

HasLocalStep(yaml) ==
    \E p \in DOMAIN yaml.pipelines :
       \E s \in DOMAIN yaml.pipelines[p].steps :
          yaml.pipelines[p].steps[s].servers = <<>>

\* C12: a configuration with a step whose servers list is empty passes
\* validation, and a run of that step is one run of the local transport
\* with pipeline_name and step_name in its snapshot, giving the single
\* result of "localhost".
C12_LocalStepAccepted ==
    /\ (executor # "none" /\ WellFormed(yaml_content)
           /\ HasLocalStep(yaml_content))
          => executor = "ready"
    /\ (StepReturned /\ step_frame.step.servers = <<>>)
          => /\ Len(tasks) = 1
             /\ {"pipeline_name", "step_name"}
                   \subseteq DOMAIN tasks[1].variable_manager
             /\ Len(step_frame.returned.value) = 1
             /\ step_frame.returned.value[1].server_name = "localhost"

-----------------------------------------------------------------------------
(* C13 *)

\* C13: once an executor is constructed, every server name of every step
\* of every pipeline is a key of the clients map, and no step, pipeline or
\* API call returns the "Server not found" error of the server lookup.
C13_ServersAreClients ==
    executor = "ready" =>
        /\ \A p \in DOMAIN config.pipelines :
              \A s \in DOMAIN config.pipelines[p].steps :
                 Range(config.pipelines[p].steps[s].servers)
                    \subseteq DOMAIN config.clients
        /\ step_frame.returned # Err("Server not found")
        /\ pipe_frame.returned # Err("Server not found")
        /\ ret # Err("Server not found")

\* A constructed executor has run a step over two servers to its results.
C13_Witness ==
    /\ executor = "ready"
    /\ StepReturned
    /\ Len(step_frame.step.servers) = 2

-----------------------------------------------------------------------------
(* C14 *)

HasEmptyName(yaml) ==
    \E p \in DOMAIN yaml.pipelines :
       \/ yaml.pipelines[p].name = ""
       \/ \E s \in DOMAIN yaml.pipelines[p].steps :
             yaml.pipelines[p].steps[s].name = ""

\* C14: construction fails when a pipeline name or a step name of the
\* configuration is the empty string.
C14_EmptyNameRejected ==
    (executor # "none" /\ HasEmptyName(yaml_content)) => executor = "rejected"

-----------------------------------------------------------------------------
(* C15 *)

\* The variables block of the document overlaid by the caller's variables.
C15_Overlay ==
    LET block == IF yaml_content.variables = None THEN NoVars
                 ELSE yaml_content.variables[1]
        given == IF overrides = None THEN NoVars ELSE overrides[1]
    IN  [k \in (DOMAIN block) \cup (DOMAIN given) |->
            IF k \in DOMAIN given THEN given[k] ELSE block[k]]

-----------------------------------------------------------------------------
(* C16 *)

\* Between two pipelines: the engine is in no pipeline's loop.
C16_BetweenPipelines ==
    /\ executor = "ready"
    /\ pc \in {"idle", "all_loop"}

\* When a pipeline has returned its result, every key its steps set, by
\* step variables or by extraction, is in the store with the last value
\* the pipeline wrote to it.
C16_ValuesKept ==
    (C16_BetweenPipelines /\ PipelineReturned) =>
        LET steps == pipe_frame.pipeline.steps
            results == pipe_frame.all_step_results
        IN  \A j \in 1..StartedSteps :
               \A k \in (DOMAIN StepVariables(steps[j]))
                          \cup (DOMAIN CommittedBy(steps[j],
                                           ResultsOfStep(results, steps, j))) :
                  /\ k \in DOMAIN variable_manager
                  /\ variable_manager[k]
                        = unwrap(LastWrite(k, steps, results, StartedSteps,
                                           CompletedSteps))

\* From there the store stays as it is until the next pipeline is in its
\* loop, whose pipeline-start Log shows that store.
C16_StoreCarriedOver ==
    C16_BetweenPipelines =>
        /\ variable_manager' = variable_manager
        /\ (pc' = "pipe_loop" /\ pipe_frame'.cb.log) =>
              /\ NewEvents # <<>>
              /\ NewEvents[Len(NewEvents)].content = "pipeline started"
              /\ NewEvents[Len(NewEvents)].variables = variable_manager

\* C16: the store is not reset between pipelines: every value set by step
\* variables or extraction while a pipeline runs is in the store when the
\* pipeline has returned, and the store is untouched until a later
\* pipeline starts, in execute_all or in a later call.
C16_StoreNotReset ==
    []C16_ValuesKept /\ [][C16_StoreCarriedOver]_vars

\* In a second call, execute_all starts its second pipeline with the ver an
\* earlier call extracted and the env its first pipeline set.
C16_Witness ==
    /\ calls = 2
    /\ all_frame.active
    /\ all_frame.i = 2
    /\ pc = "pipe_loop"
    /\ pipe_frame.i = 1
    /\ "ver" \in DOMAIN variable_manager
    /\ variable_manager["ver"] = "42"
    /\ variable_manager["env"] = "b"

-----------------------------------------------------------------------------
(* C17: idempotence of replace_variables *)

\* The last call was replace_variables on what the call before it returned.
AppliedTwice == vm_call.op = "replace_variables" /\ vm_call.again

\* The stored keys whose placeholder occurs in the text.
StoredPlaceholders(variables, text) ==
    {k \in DOMAIN variables : \E i \in DOMAIN text : text[i] = Placeholder(k)}

\* A stored value carries placeholder text.
ValueHasPlaceholder(variables) ==
    \E k \in DOMAIN variables :
        \E name \in {"a", "b", "c", "d", "tok"} : variables[k] = Placeholder(name)

-----------------------------------------------------------------------------
(* C18: replace_variables and the iteration order of the store *)

\* C18: the result of replace_variables does not depend on the order in which
\* the keys of the store are iterated: for the store and the text of every
\* call, every permutation of the keys yields the output that was returned.
C18_OrderIndependent ==
    vm_call.op = "replace_variables" =>
        \A order \in KeyOrders(DOMAIN vm) :
            replace_in_order(vm, order, vm_call.text) = vm_ret.value

-----------------------------------------------------------------------------
(* C19: cascade extraction *)

\* The patterns of this model that compile and have a capture group.
GroupedPatterns == {"token: (.*)", "(.+?)=", "v=(\\d+)", "(\\d)"}

\* A cascade rule over a known source whose patterns are all valid and grouped.
GroupedCascade(rule) ==
    /\ rule.cascade
    /\ rule.source \in KnownSources
    /\ \A i \in DOMAIN rule.patterns : rule.patterns[i] \in GroupedPatterns

\* The first capture of pattern n in the first capture of pattern n-1, and so
\* on down to pattern i in the carrier; None when one of them does not match.
RECURSIVE Chain(_, _, _)
Chain(patterns, i, carrier) ==
    IF i > Len(patterns) THEN Some(carrier)
    ELSE IF captures(patterns[i], carrier).group1 = None THEN None
    ELSE Chain(patterns, i + 1, unwrap(captures(patterns[i], carrier).group1))

\* What the rules from i on are to leave in the store: each rule's chain value
\* under its name when the chain is complete, nothing otherwise.
RECURSIVE Chained(_, _, _, _)
Chained(variables, extract_rules, i, execution_result) ==
    IF i > Len(extract_rules) THEN variables
    ELSE LET rule == extract_rules[i]
             v == Chain(rule.patterns, 1, source_content_of(rule, execution_result))
         IN  Chained(IF is_some(v) THEN set_variable(variables, rule.name, unwrap(v))
                     ELSE variables,
                     extract_rules, i + 1, execution_result)

\* The last call was extract_variables with grouped cascade rules only.
CascadeExtracted ==
    /\ vm_call.op = "extract_variables"
    /\ \A i \in DOMAIN vm_call.extract_rules : GroupedCascade(vm_call.extract_rules[i])

\* C19: after extract_variables with cascade rules of valid patterns, the store
\* is the store before the call with, for each rule whose patterns all match
\* their carriers, the chained first capture under the rule's name: nothing
\* else is written (no intermediate capture), and a rule one of whose
\* patterns does not match its carrier writes nothing.  The call returns Ok.
C19_CascadeChain ==
    CascadeExtracted =>
        /\ vm_ret.kind = "ok"
        /\ vm = Chained(vm_call.before, vm_call.extract_rules, 1,
                        vm_call.execution_result)

\* The rule [token: (.*), (.+?)=] on the stdout "token: abc123=xyz" has stored
\* abc123 over an older value.
C19_Witness ==
    /\ CascadeExtracted
    /\ vm_call.extract_rules = <<TokRule>>
    /\ vm_call.execution_result.stdout = "token: abc123=xyz"
    /\ vm_call.before = [k \in {"tok"} |-> "old"]
    /\ vm = [k \in {"tok"} |-> "abc123"]

\* A rule whose second pattern does not match what the first captured has
\* left the store as it was.
C19_WitnessNoMatch ==
    /\ CascadeExtracted
    /\ vm_call.extract_rules = <<MissRule>>
    /\ vm_call.execution_result.stdout = "v=42"
    /\ vm_call.before = [k \in {"tok"} |-> "old"]
    /\ vm = vm_call.before

-----------------------------------------------------------------------------
(* C20: a cascade pattern without a capture group *)

\* Following first captures from pattern i on, a pattern is reached that
\* matches its carrier but has no capture group.
RECURSIVE UngroupedReached(_, _, _)
UngroupedReached(patterns, i, carrier) ==
    /\ i <= Len(patterns)
    /\ captures(patterns[i], carrier).matched
    /\ \/ captures(patterns[i], carrier).group1 = None
       \/ UngroupedReached(patterns, i + 1,
                           unwrap(captures(patterns[i], carrier).group1))

\* The last call was extract_variables with one cascade rule of valid
\* patterns, one of which matched its carrier without a capture group.
UngroupedCascadeExtracted ==
    /\ vm_call.op = "extract_variables"
    /\ Len(vm_call.extract_rules) = 1
    /\ LET rule == vm_call.extract_rules[1] IN
       /\ rule.cascade
       /\ rule.source \in KnownSources
       /\ \A i \in DOMAIN rule.patterns : regex_new_ok(rule.patterns[i])
       /\ UngroupedReached(rule.patterns, 1,
                           source_content_of(rule, vm_call.execution_result))

\* C20 as stated: when a pattern of a cascade rule matches but has no capture
\* group, the rule leaves the store as it was and the call returns Ok.
C20_UngroupedStoresNothing ==
    UngroupedCascadeExtracted =>
        /\ vm_ret.kind = "ok"
        /\ vm = vm_call.before

\* The value of a match: its first capture, or the whole match when the
\* pattern has no capture group.
MatchValue(c) == IF c.group1 = None THEN c.full ELSE unwrap(c.group1)

\* The value of pattern n in the value of pattern n-1, and so on down to
\* pattern i in the carrier; None when one of them does not match.
RECURSIVE FullChain(_, _, _)
FullChain(patterns, i, carrier) ==
    IF i > Len(patterns) THEN Some(carrier)
    ELSE IF ~captures(patterns[i], carrier).matched THEN None
    ELSE FullChain(patterns, i + 1, MatchValue(captures(patterns[i], carrier)))

\* C20 amended: when a pattern of a cascade rule matches but has no capture
\* group, its whole match is taken as its value: the carrier of the next
\* pattern, or the stored value when it is the last pattern.  The call
\* returns Ok, and the rule stores nothing only when a later pattern does not
\* match.
C20_UngroupedUsesFullMatch ==
    UngroupedCascadeExtracted =>
        LET rule == vm_call.extract_rules[1]
            v == FullChain(rule.patterns, 1,
                           source_content_of(rule, vm_call.execution_result))
        IN  /\ vm_ret.kind = "ok"
            /\ vm = IF is_some(v)
                    THEN set_variable(vm_call.before, rule.name, unwrap(v))
                    ELSE vm_call.before

\* The rule [v=\d+] on the stdout "v=42" has stored the whole match.
C20_Witness ==
    /\ UngroupedCascadeExtracted
    /\ vm_call.extract_rules = <<WholeRule>>
    /\ vm_call.before = NoVars
    /\ vm = [k \in {"tok"} |-> "v=42"]

-----------------------------------------------------------------------------
(* C21: fallback extraction *)

\* The patterns of the rule whose first capture group matches the content.
GroupMatches(rule, content) ==
    {i \in DOMAIN rule.patterns : captures(rule.patterns[i], content).group1 # None}

\* The least number of a nonempty set of pattern indices.
First(indices) == CHOOSE i \in indices : \A j \in indices : i <= j

\* A rule over a known source whose patterns all compile.
ValidRule(rule) ==
    /\ rule.source \in KnownSources
    /\ \A i \in DOMAIN rule.patterns : regex_new_ok(rule.patterns[i])

\* The last call was extract_variables with one fallback rule of valid patterns.
FallbackExtracted ==
    /\ vm_call.op = "extract_variables"
    /\ Len(vm_call.extract_rules) = 1
    /\ ~vm_call.extract_rules[1].cascade
    /\ ValidRule(vm_call.extract_rules[1])

\* C21: after extract_variables with a fallback rule, the value under the
\* rule's name is the first capture group, in the unmodified source text, of
\* the first pattern in list order whose first capture group matches; later
\* patterns do not overwrite it, and nothing else in the store changes.
C21_FirstGroupedPattern ==
    FallbackExtracted =>
        LET rule == vm_call.extract_rules[1]
            content == source_content_of(rule, vm_call.execution_result)
            found == GroupMatches(rule, content)
        IN  found # {} =>
                vm = set_variable(vm_call.before, rule.name,
                        unwrap(captures(rule.patterns[First(found)], content).group1))

\* On the stdout "version 3 build 7\n" both patterns of the rule match and
\* the first one's capture is stored.
C21_Witness ==
    /\ FallbackExtracted
    /\ vm_call.extract_rules = <<VersionRule>>
    /\ vm_call.execution_result.stdout = "version 3 build 7\n"
    /\ vm_call.before = NoVars
    /\ vm = [k \in {"d"} |-> "3"]

\* The spec's example: on the stdout "build 7\n" the second pattern's capture
\* is stored.
C21_WitnessSecondPattern ==
    /\ FallbackExtracted
    /\ vm_call.extract_rules = <<VersionRule>>
    /\ vm_call.execution_result.stdout = "build 7\n"
    /\ vm = set_variable(vm_call.before, "d", "7")

-----------------------------------------------------------------------------
(* C22: extraction never fails on a well-formed rule *)

\* The value a rule yields on an execution result, None when it yields none.
Yield(rule, execution_result) ==
    LET content == source_content_of(rule, execution_result) IN
    IF rule.cascade THEN FullChain(rule.patterns, 1, content)
    ELSE IF GroupMatches(rule, content) = {} THEN None
    ELSE captures(rule.patterns[First(GroupMatches(rule, content))], content).group1

\* The store after the rules from i on: each rule's value under its name when
\* it yields one, the store as it was when it yields none.
RECURSIVE Yielded(_, _, _, _)
Yielded(variables, extract_rules, i, execution_result) ==
    IF i > Len(extract_rules) THEN variables
    ELSE LET v == Yield(extract_rules[i], execution_result)
         IN  Yielded(IF is_some(v)
                     THEN set_variable(variables, extract_rules[i].name, unwrap(v))
                     ELSE variables,
                     extract_rules, i + 1, execution_result)

\* The last call was extract_variables with rules over known sources whose
\* patterns all compile.
ValidRulesExtracted ==
    /\ vm_call.op = "extract_variables"
    /\ \A i \in DOMAIN vm_call.extract_rules : ValidRule(vm_call.extract_rules[i])

\* C22: extract_variables with rules over stdout, stderr or exit_code whose
\* patterns are valid returns Ok whatever the source text is; a rule that
\* yields no value leaves the store as it was, an earlier value under its name
\* included, and the rules after it are still applied.
C22_NoValueIsNoError ==
    ValidRulesExtracted =>
        /\ vm_ret.kind = "ok"
        /\ vm = Yielded(vm_call.before, vm_call.extract_rules, 1,
                        vm_call.execution_result)

\* The first rule yielded nothing and left the older value under its name;
\* the second rule stored its value.
C22_Witness ==
    /\ ValidRulesExtracted
    /\ vm_call.extract_rules = <<MissRule, VersionRule>>
    /\ vm_call.execution_result.stdout = "build 7\n"
    /\ vm_call.before = [k \in {"tok"} |-> "old"]
    /\ vm = [k \in {"tok", "d"} |-> IF k = "tok" THEN "old" ELSE "7"]
    /\ vm_ret.kind = "ok"

-----------------------------------------------------------------------------
(* C23: an extract rule with an invalid regex *)

\* An extract rule of the step has a pattern that does not compile.
HasInvalidRegex(step) ==
    /\ is_some(step.extract)
    /\ \E r \in DOMAIN unwrap(step.extract) :
          \E i \in DOMAIN unwrap(step.extract)[r].patterns :
             ~regex_new_ok(unwrap(step.extract)[r].patterns[i])

\* C23 as stated: a step with an extract rule whose regex is invalid is
\* aborted: once it has returned, it has returned an error (which the
\* pipeline run hands to the caller), never a list of results.
C23_InvalidRegexAborts ==
    (HasInvalidRegex(step_frame.step) /\ step_frame.returned.kind # "none")
        => step_frame.returned.kind = "err"

\* Every server of a step with an invalid extract regex has returned a result
\* and the results are about to be collected.
C23_InvalidRegexJoin ==
    /\ pc = "join"
    /\ all_joined(tasks)
    /\ HasInvalidRegex(step_frame.step)
    /\ \A i \in DOMAIN tasks : tasks[i].result.kind = "ok"

\* C23 amended: the error of an invalid extract regex is logged and dropped.
\* The step returns one result per server, nothing is merged into the store,
\* and when no result failed the pipeline goes on to the next step.
C23_InvalidRegexIsLogged ==
    [][C23_InvalidRegexJoin =>
          /\ step_frame'.returned.kind = "ok"
          /\ Len(step_frame'.returned.value) = Len(tasks)
          /\ variable_manager' = variable_manager
          /\ ~HasFailure(step_frame'.returned.value) =>
                /\ pc' = "pipe_loop"
                /\ pipe_frame'.i = pipe_frame.i + 1
                /\ ret' = NoRet]_vars

\* The step "lint" has returned its result and the pipeline is at its next
\* step.
C23_Witness ==
    /\ pc = "pipe_loop"
    /\ pipe_frame.pipeline.name = "lint"
    /\ pipe_frame.i = 2
    /\ step_frame.step.name = "lint"
    /\ HasInvalidRegex(step_frame.step)
    /\ StepReturned

-----------------------------------------------------------------------------
(* C24: SSH transport failures *)

\* The SSH transport of task i returned an Err.
TransportFailed(i) == tasks[i].ssh.kind = "err"

\* The result of every task whose SSH transport failed is an ExecutionResult
\* with success = false and an error message, not an Err.
C24_FailureIsResult ==
    \A i \in DOMAIN tasks :
        TransportFailed(i) =>
            /\ tasks[i].result.kind = "ok"
            /\ ~tasks[i].result.value.success
            /\ is_some(tasks[i].result.value.error_message)

\* The results of a step are collected, the SSH transport of one of its
\* servers has failed and no server's task returned an Err.
C24_FailedJoin ==
    /\ pc = "join"
    /\ all_joined(tasks)
    /\ \E i \in DOMAIN tasks : TransportFailed(i)
    /\ \A i \in DOMAIN tasks : tasks[i].result.kind = "ok"

\* The step returns its results with a failed StepExecutionResult for each
\* server whose transport failed, and the pipeline run returns a result with
\* overall_success = false.
C24_FailureRecorded ==
    C24_FailedJoin =>
        /\ step_frame'.returned.kind = "ok"
        /\ \A i \in DOMAIN tasks :
              TransportFailed(i) =>
                 /\ step_frame'.returned.value[i].server_name = tasks[i].server_name
                 /\ ~step_frame'.returned.value[i].overall_success
                 /\ step_frame'.returned.value[i].execution_result
                        = tasks[i].result.value
        /\ pipe_frame'.returned.kind = "ok"
        /\ ~pipe_frame'.returned.value.overall_success

\* C24: every failure of the SSH transport becomes an ExecutionResult with
\* success = false and an error message, is recorded as a failed
\* StepExecutionResult of that server, and the pipeline run returns a result,
\* not an error.
C24_TransportFailureIsFailedStep ==
    []C24_FailureIsResult /\ [][C24_FailureRecorded]_vars

\* A pipeline run has returned its result after the connection to the only
\* server of a step failed.
C24_Witness ==
    /\ pc = "idle"
    /\ Len(tasks) = 1
    /\ tasks[1].ssh = Err("Failed to connect to SSH server")
    /\ StepReturned
    /\ ~step_frame.returned.value[1].execution_result.success
    /\ PipelineReturned
    /\ ~pipe_frame.returned.value.overall_success
    /\ ret.kind = "ok"

-----------------------------------------------------------------------------
(* C26: websocket clients *)

\* The server is a client whose execution_method is websocket.
IsWebSocket(server_name) ==
    /\ server_name \in DOMAIN config.clients
    /\ config.clients[server_name].execution_method = "WebSocket"

\* No script has run for a websocket client: its task never read the script,
\* never had a transport and delivered no output.
C26_NoScriptRun ==
    \A i \in DOMAIN tasks :
        IsWebSocket(tasks[i].server_name) =>
            /\ tasks[i].state # "running"
            /\ tasks[i].script_content = <<>>
            /\ tasks[i].ssh = NoRet
            /\ tasks[i].events = <<>>
            /\ tasks[i].result.kind # "ok"

\* The results of a step that targets a websocket client are collected.
C26_WebSocketJoin ==
    /\ pc = "join"
    /\ all_joined(tasks)
    /\ \E i \in DOMAIN tasks : IsWebSocket(tasks[i].server_name)

\* The step fails, with the "not implemented" error when its script file
\* exists, and the pipeline run returns that error to the caller.
C26_StepFails ==
    C26_WebSocketJoin =>
        /\ step_frame'.returned.kind = "err"
        /\ Flatten(step_frame.step_with_variables.script) \in ExistingScripts =>
              step_frame'.returned.error = "WebSocket execution not implemented yet"
        /\ pipe_frame'.returned = step_frame'.returned
        /\ ret' = step_frame'.returned
        /\ pc' = "idle"

-----------------------------------------------------------------------------
(* C25: the step timeout on the local transport *)

\* The local transport has returned after its timeout expired.
LocalTimedOut ==
    /\ transport.kind = "local"
    /\ transport.pc = "returned"
    /\ transport.child = "killed"

\* C25: when the script is still running as the step timeout expires, the
\* process is terminated and the transport yields an ExecutionResult with
\* success = false (so that the step is recorded as failed and the pipeline
\* run returns a result, not an error); stated for the local transport.
C25_TimeoutIsFailedResult ==
    LocalTimedOut =>
        /\ transport.ret.kind = "ok"
        /\ ~transport.ret.value.success

-----------------------------------------------------------------------------
(* C27: one callback invocation at a time per server *)

\* The threads of control that are inside the callback with an event of the
\* transport's server.
InCallback ==
    {s \in Streams : readers[s].state = "in_callback"}
        \cup (IF callback.handler = "in_callback" THEN {"handler"} ELSE {})

\* C27: the callback is never invoked for two events of the same server name
\* at the same time, for a remote server and for the local transport.
C27_OneCallbackAtATime == Cardinality(InCallback) <= 1

-----------------------------------------------------------------------------
(* C28: order of the events of a stream *)

\* The contents of the events of the sequence that are of the stream.
RECURSIVE ContentsOf(_, _)
ContentsOf(evs, s) ==
    IF evs = <<>> THEN <<>>
    ELSE (IF Head(evs).output_type = output_type_of(s)
          THEN <<Head(evs).content>> ELSE <<>>) \o ContentsOf(Tail(evs), s)

\* The lines of the stream that the transport has read.
LinesRead(s) == SubSeq(lines_of(transport, s), 1, readers[s].pos)

\* The transport has returned an ExecutionResult.
TransportReturned == transport.pc = "returned" /\ transport.ret.kind = "ok"

\* C28: for each stream, the events that reached the callback, followed by
\* those still in the channel, are the lines read from the stream in the
\* order read, none twice; the text accumulated for the stream is those lines
\* in that order, and it is the stdout (stderr) of the ExecutionResult.
C28_StreamOrder ==
    \A s \in Streams :
        /\ transport.has_callback =>
              ContentsOf(callback.delivered, s) \o ContentsOf(callback.queue, s)
                  = LinesRead(s)
        /\ readers[s].content = accumulate(LinesRead(s))
        /\ TransportReturned =>
              /\ LinesRead(s) = lines_of(transport, s)
              /\ transport.ret.value.stdout = readers["stdout"].content
              /\ transport.ret.value.stderr = readers["stderr"].content

\* The SSH transport has returned its result after two lines of each stream
\* reached the callback.
C28_Witness ==
    /\ transport.kind = "ssh"
    /\ TransportReturned
    /\ ContentsOf(callback.delivered, "stdout") = <<"a", "b">>
    /\ ContentsOf(callback.delivered, "stderr") = <<"e", "f">>
    /\ transport.ret.value.stdout = "a\nb\n"

\* The same for the local transport, a stderr line delivered between the two
\* stdout lines.
C28_WitnessLocal ==
    /\ transport.kind = "local"
    /\ TransportReturned
    /\ ContentsOf(callback.delivered, "stdout") = <<"a", "b">>
    /\ ContentsOf(callback.delivered, "stderr") = <<"e", "f">>
    /\ callback.delivered[2].content = "a"
    /\ callback.delivered[3].content = "e"
    /\ transport.ret.value.stderr = "e\nf\n"

-----------------------------------------------------------------------------
(* C29: the temporary script file *)

\* C29: once the local transport has returned, on whichever path, the
\* temporary file it created no longer exists.
C29_TempFileRemoved ==
    (transport.kind = "local" /\ transport.pc = "returned")
        => transport.temp_file # "exists"

\* The local transport has returned on its timeout path after creating the
\* file, and the file is removed.
C29_Witness ==
    /\ LocalTimedOut
    /\ transport.temp_file = "removed"

\* The exit paths after the file was created, each with the file removed.
C29_WitnessPaths ==
    /\ transport.kind = "local"
    /\ transport.pc = "returned"
    /\ transport.temp_file = "removed"
    /\ transport.ret = Err("Failed to spawn local script process")

-----------------------------------------------------------------------------
(* C30: template variable substitution *)

\* The template holds no for tag and no include tag.
Flat(template) ==
    \A i \in DOMAIN template :
        ~is_for(template[i]) /\ ~is_include(template[i])
        /\ template[i] # Endfor

\* The template with each placeholder of a variable in scope replaced by the
\* variable's value, the values themselves left as they are.
SinglePass(variables, template) ==
    [i \in DOMAIN template |->
        IF is_placeholder(template[i])
           /\ get_variable_value(variables,
                                 variable_path(template[i])).kind = "ok"
        THEN value_str(get_variable_value(variables,
                                          variable_path(template[i])).value)
        ELSE template[i]]

\* C30: variable substitution is a single pass: what render_string returns is
\* the template with each placeholder replaced by its variable's value, and a
\* value that is itself a placeholder appears verbatim in the output even
\* when its name is in scope.
C30_SinglePass ==
    (template_engine.ret.kind = "ok" /\ Flat(template_engine.template)) =>
        template_engine.ret.value
            = SinglePass(template_engine.variables, template_engine.template)

-----------------------------------------------------------------------------
(* C31: a for loop without preserved newlines *)

\* The for tag of the block being rendered.
LoopTag == for_captures(Head(template_engine.loop.full_match))

\* The items of the block that have been rendered so far.
ConsumedItems ==
    LET all == loop_items(template_engine.variables, LoopTag).value
    IN  SubSeq(all, 1, Len(all) - Len(template_engine.loop.items))

\* The body of the block rendered for one element: the element's value bound
\* to the loop identifier.
BodyOf(element) ==
    SinglePass(set_variable(template_engine.variables,
                            template_engine.loop.item_name, element),
               template_engine.loop.loop_content)

\* What one element contributes: the lines of its rendered body that are
\* not whitespace only, as they are, with one newline between them.
PieceOf(element) ==
    join(SelectSeq(lines(BodyOf(element)), LAMBDA line : ~is_blank(line)))

\* The pieces that are not empty, with one newline between them.
RECURSIVE JoinPieces(_)
JoinPieces(pieces) ==
    IF pieces = <<>> THEN <<>>
    ELSE IF Head(pieces) = <<>> THEN JoinPieces(Tail(pieces))
    ELSE IF JoinPieces(Tail(pieces)) = <<>> THEN Head(pieces)
    ELSE Head(pieces) \o <<"\n">> \o JoinPieces(Tail(pieces))

\* C31: with preserve_loop_newlines = false the result of a for loop is, for
\* each element, its rendered body without the whitespace-only lines, the
\* lines left joined by "\n" with their indentation; the elements' results
\* are joined by exactly one "\n", an element whose body renders to blank
\* lines only adds nothing, and there is no leading or trailing newline.
C31_LoopWithoutBlankLines ==
    (template_engine.pc = "for_item"
     /\ ~template_engine.preserve_loop_newlines) =>
        template_engine.loop.loop_result
            = JoinPieces([i \in DOMAIN ConsumedItems |->
                             PieceOf(ConsumedItems[i])])

\* A loop over ",b,,c" split by "," has rendered all four elements: two of
\* them added nothing, the other two are one indented line each.
C31_Witness ==
    /\ template_engine.pc = "for_item"
    /\ ~template_engine.preserve_loop_newlines
    /\ template_engine.loop.items = <<>>
    /\ Len(ConsumedItems) = 4
    /\ template_engine.loop.loop_result = <<"  ", "b", "\n", "  ", "c">>

\* The template of test_for_loop is rendered as the test expects.
C31_WitnessTest ==
    /\ ~template_engine.preserve_loop_newlines
    /\ template_engine.ret
         = Ok(<<"\n", "        ", "- ", "apple", "\n",
                "        ", "- ", "banana">>)

-----------------------------------------------------------------------------
(* C32: a split loop with a one-line body *)

\* A split loop whose body holds no newline is between two items or done,
\* with newlines of loops not preserved.
OneLineSplitLoop ==
    /\ template_engine.pc = "for_item"
    /\ ~template_engine.preserve_loop_newlines
    /\ LoopTag.split_delimiter # None
    /\ \A i \in DOMAIN template_engine.loop.loop_content :
          template_engine.loop.loop_content[i] # "\n"

\* The renderings of the elements one after the other.
RECURSIVE Concatenated(_)
Concatenated(elements) ==
    IF elements = <<>> THEN <<>>
    ELSE BodyOf(Head(elements)) \o Concatenated(Tail(elements))

\* The example of the split loop has returned.
SplitExample ==
    /\ template_engine.template
         = <<for_token("x", "csv", Some(",")), "-", "{{ x }}", Endfor>>
    /\ "csv" \in DOMAIN template_engine.variables
    /\ template_engine.variables["csv"] = String("a,b,c")
    /\ ~template_engine.preserve_loop_newlines
    /\ template_engine.pc = "idle"
    /\ template_engine.ret.kind = "ok"

\* C32 as stated: with preserve_loop_newlines = false a split loop with a
\* one-line body renders as the renderings of the elements concatenated
\* without a separator; csv = "a,b,c" and "-{{ x }}" give "-a-b-c".
C32_SplitConcatenated ==
    /\ OneLineSplitLoop =>
          template_engine.loop.loop_result = Concatenated(ConsumedItems)
    /\ SplitExample =>
          template_engine.ret.value = <<"-", "a", "-", "b", "-", "c">>

\* The renderings that are not blank, each as a piece.
Renderings(elements) ==
    [i \in DOMAIN elements |->
        IF is_blank(BodyOf(elements[i])) THEN <<>> ELSE BodyOf(elements[i])]

\* C32 amended: with preserve_loop_newlines = false a split loop with a
\* one-line body renders as the renderings of the elements that are not
\* blank, with one "\n" between them; csv = "a,b,c" and "-{{ x }}" give
\* "-a\n-b\n-c".
C32_SplitJoinedByNewline ==
    /\ OneLineSplitLoop =>
          template_engine.loop.loop_result
              = JoinPieces(Renderings(ConsumedItems))
    /\ SplitExample =>
          template_engine.ret.value
              = <<"-", "a", "\n", "-", "b", "\n", "-", "c">>

\* The example has been rendered.
C32_Witness ==
    /\ SplitExample
    /\ template_engine.ret.value = <<"-", "a", "\n", "-", "b", "\n", "-", "c">>

-----------------------------------------------------------------------------
(* C33: a for block inside a for block *)

\* The template with a for block over items inside a for block over items.
NestedTemplate ==
    <<for_token("x", "items", None), for_token("y", "items", None),
      "{{ x }}", "{{ y }}", ";", Endfor, Endfor>>

\* render_string has returned from the nested template with items an array.
NestedReturned ==
    /\ template_engine.template = NestedTemplate
    /\ "items" \in DOMAIN template_engine.variables
    /\ template_engine.variables["items"].type = "Array"
    /\ template_engine.pc = "idle"
    /\ template_engine.ret.kind # "none"

\* The inner body for the pairs of one outer element, in order.
RECURSIVE InnerPairs(_, _)
InnerPairs(outer, inner) ==
    IF inner = <<>> THEN <<>>
    ELSE <<value_str(outer), value_str(Head(inner)), ";">>
             \o InnerPairs(outer, Tail(inner))

\* The inner body for every (outer element, inner element) pair, in order.
RECURSIVE AllPairs(_, _)
AllPairs(outer, inner) ==
    IF outer = <<>> THEN <<>>
    ELSE InnerPairs(Head(outer), inner) \o AllPairs(Tail(outer), inner)

\* The text without the newlines a loop puts between its items.
WithoutNewlines(text) == SelectSeq(text, LAMBDA token : token # "\n")

\* C33: a for block nested in the body of another for block is rendered: the
\* inner body is emitted once for each (outer element, inner element) pair,
\* in order, with both loop identifiers bound.
C33_NestedFor ==
    NestedReturned =>
        /\ template_engine.ret.kind = "ok"
        /\ WithoutNewlines(template_engine.ret.value)
             = AllPairs(template_engine.variables["items"].items,
                        template_engine.variables["items"].items)

-----------------------------------------------------------------------------
(* C34: the errors of render_string *)

\* The top-level name of the placeholder at a position of the template.
TopLevelName(template, i) == parts(variable_path(template[i]))[1]

\* The name is the loop identifier of a for block around the position.
BoundByLoop(template, i, name) ==
    \E p \in DOMAIN template :
        /\ p < i
        /\ is_for(template[p])
        /\ for_captures(template[p]).item_name = name
        /\ \E e \in DOMAIN template : e > i /\ template[e] = Endfor

\* The template references a top-level variable that is not in scope.
UnknownVariable(template, variables) ==
    \/ \E i \in DOMAIN template :
          /\ is_placeholder(template[i])
          /\ TopLevelName(template, i) \notin DOMAIN variables
          /\ ~BoundByLoop(template, i, TopLevelName(template, i))
    \/ \E i \in DOMAIN template :
          /\ is_for(template[i])
          /\ for_captures(template[i]).array_name \notin DOMAIN variables

\* The template descends with a dotted path through a value in scope that
\* is not an object.
DescendsNonObject(template, variables) ==
    \E i \in DOMAIN template :
        /\ is_placeholder(template[i])
        /\ Len(parts(variable_path(template[i]))) > 1
        /\ TopLevelName(template, i) \in DOMAIN variables
        /\ variables[TopLevelName(template, i)].type # "Object"

\* The template uses a value in scope that is not an array in a for tag
\* without split.
ForNonArray(template, variables) ==
    \E i \in DOMAIN template :
        /\ is_for(template[i])
        /\ for_captures(template[i]).split_delimiter = None
        /\ for_captures(template[i]).array_name \in DOMAIN variables
        /\ variables[for_captures(template[i]).array_name].type # "Array"

\* The template uses a value in scope that is not a string in a for tag
\* with split.
SplitNonString(template, variables) ==
    \E i \in DOMAIN template :
        /\ is_for(template[i])
        /\ for_captures(template[i]).split_delimiter # None
        /\ for_captures(template[i]).array_name \in DOMAIN variables
        /\ variables[for_captures(template[i]).array_name].type # "String"

\* The template holds an include tag and no template directory is set.
IncludeWithoutDir(template, template_dir) ==
    /\ template_dir = None
    /\ \E i \in DOMAIN template : is_include(template[i])

\* render_string has returned.
RenderReturned ==
    template_engine.pc = "idle" /\ template_engine.ret.kind # "none"

C34_WitnessDescend ==
    /\ RenderReturned
    /\ DescendsNonObject(template_engine.template, template_engine.variables)
    /\ template_engine.ret = Err("Cannot access property on non-object value")

\* render_string has returned from a for over a string without split.
C34_WitnessForNonArray ==
    /\ RenderReturned
    /\ ForNonArray(template_engine.template, template_engine.variables)
    /\ template_engine.ret = Err("is not an array")

\* render_string has returned from a for with split over an array.
C34_WitnessSplitNonString ==
    /\ RenderReturned
    /\ SplitNonString(template_engine.template, template_engine.variables)
    /\ template_engine.ret = Err("Cannot split non-string variable")

\* render_string has returned from an include without a template directory.
C34_WitnessInclude ==
    /\ RenderReturned
    /\ IncludeWithoutDir(template_engine.template,
                         template_engine.template_dir)
    /\ template_engine.ret = Err("Template directory not set for include")

-----------------------------------------------------------------------------
(* C40: render_string terminates *)

\* A call of render_string runs on: each of its loops takes its next turn.
TemplateFairness ==
    /\ WF_vars(ProcessIncludes)
    /\ WF_vars(ProcessForLoops)
    /\ WF_vars(ForItem)
    /\ WF_vars(ItemVariables)
    /\ WF_vars(ProcessVariables)

TemplateLiveSpec == TemplateSpec /\ TemplateFairness

\* C40: render_string terminates for every template and variable scope, also
\* when the value of a variable holds a placeholder (of another variable or
\* of itself) and when an included file holds an include tag.
C40_RenderTerminates ==
    (template_engine.pc # "idle") ~> (template_engine.pc = "idle")

-----------------------------------------------------------------------------
(* C35: the store after a fan-out *)

\* The fan-out of the current step has been joined and its results returned.
FanOutJoined ==
    /\ executor = "ready"
    /\ step_frame.step_with_variables.servers # <<>>
    /\ step_frame.returned.kind = "ok"
    /\ Len(tasks) = Len(step_frame.step_with_variables.servers)
    /\ all_joined(tasks)

\* What the task of server i extracted: the variables its result yields
\* under the step's rules, none if the task or the extraction failed.
ExtractedBy(i) ==
    IF tasks[i].result.kind = "ok"
       /\ is_some(step_frame.step_with_variables.extract)
       /\ extract_variables(NoVars, unwrap(step_frame.step_with_variables.extract),
                            tasks[i].result.value).ok
    THEN extract_variables(NoVars, unwrap(step_frame.step_with_variables.extract),
                           tasks[i].result.value).variables
    ELSE NoVars

\* The servers of the step, by position, that extracted the name.
Extractors(name) == {i \in DOMAIN tasks : name \in DOMAIN ExtractedBy(i)}

\* The last of them in step.servers.
LastExtractor(name) ==
    CHOOSE i \in Extractors(name) : \A j \in Extractors(name) : j <= i

\* C35: the store a fan-out step leaves does not depend on the order in
\* which the server tasks complete: a name that servers of the step
\* extracted is stored with the value of the server that comes last in
\* step.servers among those that extracted it.
C35_LastServerWins ==
    FanOutJoined =>
        \A i \in DOMAIN tasks : \A name \in DOMAIN ExtractedBy(i) :
            /\ name \in DOMAIN variable_manager
            /\ variable_manager[name]
                 = ExtractedBy(LastExtractor(name))[name]

\* Two servers extracted different values for ver and the store holds the
\* second server's.
C35_Witness ==
    /\ FanOutJoined
    /\ Len(tasks) = 2
    /\ tasks[1].server_name # tasks[2].server_name
    /\ "ver" \in DOMAIN ExtractedBy(1)
    /\ "ver" \in DOMAIN ExtractedBy(2)
    /\ ExtractedBy(1)["ver"] = "42"
    /\ ExtractedBy(2)["ver"] = "7"
    /\ variable_manager["ver"] = "7"

\* The task of the second server has completed while the first still runs.
C35_WitnessSecondFirst ==
    /\ pc = "join"
    /\ Len(tasks) = 2
    /\ tasks[1].state = "running"
    /\ tasks[2].state = "done"
    /\ "ver" \in DOMAIN ExtractedBy(2)

-----------------------------------------------------------------------------
(* C36: every started step is completed *)

\* The event is the Log that ends the run of the pipeline.
IsPipelineCompleted(event, pipeline_name) ==
    /\ event.output_type = "Log"
    /\ event.pipeline_name = pipeline_name
    /\ event.content \in {"pipeline completed: success",
                          "pipeline completed: failure"}

\* C36: every StepStarted event delivered for a step is followed by a
\* StepCompleted event for the same step and by the Log event that ends the
\* pipeline, on every execution, also when a server task returns a hard
\* error: once the call has returned no StepStarted is left without them.
C36_StartedIsCompleted ==
    (executor = "ready" /\ pc = "idle") =>
        \A i \in DOMAIN events :
            events[i].output_type = "StepStarted" =>
                /\ \E j \in DOMAIN events :
                      /\ j > i
                      /\ events[j].output_type = "StepCompleted"
                      /\ events[j].pipeline_name = events[i].pipeline_name
                      /\ events[j].step_name = events[i].step_name
                /\ \E k \in DOMAIN events :
                      /\ k > i
                      /\ IsPipelineCompleted(events[k],
                                             events[i].pipeline_name)

-----------------------------------------------------------------------------
(* C37: the output of a step comes before its StepCompleted *)

\* The event carries a line of the script's output.
IsOutputLine(event) == event.output_type \in {"Stdout", "Stderr"}

\* The StepCompleted event of the step has been emitted.
StepCompletedEmitted ==
    \E i \in DOMAIN callback.delivered :
        callback.delivered[i].output_type = "StepCompleted"

\* C37: every Stdout and Stderr event of a step is delivered to the callback
\* before the step's StepCompleted event is emitted, also when the SSH
\* transport ends with a read error while lines are queued for the output
\* handler thread: once StepCompleted is emitted no line is still queued and
\* none is delivered after it.
C37_OutputBeforeStepCompleted ==
    StepCompletedEmitted =>
        /\ callback.queue = <<>>
        /\ \A i, j \in DOMAIN callback.delivered :
              (i < j /\ callback.delivered[i].output_type = "StepCompleted")
                  => ~IsOutputLine(callback.delivered[j])

-----------------------------------------------------------------------------
(* C38: extraction is all or nothing *)

\* extract_variables, called on the store as the engine calls it for the
\* result of a local step, has returned an error.
ExtractionFailed ==
    /\ vm_call.op = "extract_variables"
    /\ vm_ret.kind = "err"

\* C38: when the extraction for a result fails on some rule (unknown source
\* or invalid regex), none of the rules has changed the engine's store: the
\* store is as it was before the call, for a local step as for a remote one.
C38_AllOrNothing ==
    ExtractionFailed => vm = vm_call.before

-----------------------------------------------------------------------------
(* C39: success and exit code *)

\* The ExecutionResults the engine has recorded: those of the step results
\* of the pipeline and those the server tasks returned.
RecordedResults ==
    {pipe_frame.all_step_results[i].execution_result :
        i \in DOMAIN pipe_frame.all_step_results}
    \cup {tasks[i].result.value :
            i \in {j \in DOMAIN tasks : tasks[j].result.kind = "ok"}}

\* C39: every ExecutionResult the engine records has success = true if and
\* only if exit_code = 0, the results made up for the failures of the SSH
\* transport included, so that a rule with source exit_code never reads "0"
\* from an execution that failed.
C39_SuccessIffExitZero ==
    \A r \in RecordedResults : r.success <=> (r.exit_code = 0)

====
